---- MODULE Spec2Model ----
(***************************************************************************)
(* Candidature lifecycle of the recruitment backend:                       *)
(*   JobApplicationsService (create, review, withdraw) and                  *)
(*   CandidaturesService (create, createManual, createLegacy, update,       *)
(*   assignPsychologue, assignTests, makeDecision, archive, updateStatus).  *)
(*                                                                         *)
(* Every service method is a sequence of persistence calls separated by    *)
(* awaits.  A request is modelled per caller as                            *)
(*   Call   : the method is invoked with its arguments,                    *)
(*   Read   : the reads and guards that precede the first write,           *)
(*   Commit : the write, a prisma.$transaction being one atomic unit,      *)
(*   Fail   : a persistence call of the pending write phase throws.        *)
(* Requests of different callers interleave at these steps.                *)
(***************************************************************************)
EXTENDS Integers, Sequences, FiniteSets, TLC

NULL == "null"
UNDEF == "undefined"

\* Bounds of the model
MaxApps == 2
MaxCands == 2
MaxLog == 3
MaxScore == 2        \* scores of classification inputs range over 0..MaxScore

\* Static reference data of the store
Psychologues == {"psy1"}
Sites == {"s1"}
LogicalTests == {"t1", "t2"}
ActivePersonalityTests == {"pt1"}
Actor == "admin"
Candidate == "cand1"

VARIABLES
    jobApplications,  \* table job_applications: sequence of rows, id = index
    candidatures,     \* table candidatures: sequence of rows, id = index
    transitions,      \* table candidature_state_transitions, in insertion order
    users,            \* emails of the registered accounts
    outbox,           \* emails handed to the mail transport
    pc,               \* per caller: position inside the running method
    req,              \* per caller: the running call (method, arguments, rows read)
    res,              \* per caller: what the last finished call returned
    languages,        \* table languages: rows (code, isActive, isDefault)
    translations,     \* translation tables: rows (parentId, languageCode, text)
    classifications,  \* table score_classifications with the translations of each row
    tests,            \* table logical_tests: rows (id, code, isTutorial, tutorialTestId, isActive)
    cache             \* cache manager: per kind of key the entries (key, view)

vars == <<jobApplications, candidatures, transitions, users, outbox, pc, req, res,
          languages, translations, classifications, tests, cache>>
db == <<jobApplications, candidatures, transitions, users>>
catalogue == <<tests, cache>>
content == <<languages, translations, classifications, catalogue>>

\* A cache without entries
NoCache == [test |-> {}, classifications |-> {}, questions |-> {}]

CandidatureStatus ==
    {"pending", "assigned", "in_progress", "completed", "in_review", "evaluated", "archived"}
ApplicationStatus == {"pending", "approved", "rejected", "withdrawn"}

\* A row of table candidatures (defaults of the schema: status pending, rest null)
NewCandidature(appId) ==
    [jobApplicationId |-> appId,
     status |-> "pending",
     assignedPsychologueId |-> NULL,
     assignedBy |-> NULL,
     assignmentDate |-> NULL,
     assignedLogicalTestId |-> NULL,
     assignedOptionalLogicalTestId |-> NULL,
     assignedPersonalityTestId |-> NULL,
     examDate |-> NULL,
     decision |-> NULL,
     decisionDate |-> NULL,
     decisionBy |-> NULL,
     decisionComments |-> NULL,
     previousCandidatureId |-> 0,
     isReevaluation |-> FALSE,
     technicalInterview |-> FALSE]

NoCand == [NewCandidature(0) EXCEPT !.status = "none"]

NewApplication(candidateId, status, reviewer) ==
    [candidateId |-> candidateId, status |-> status, reviewedBy |-> reviewer]

NoApp == NewApplication(NULL, "none", NULL)

\* Arguments of a call; a field a method does not take stays at its default
NoDto ==
    [psy |-> UNDEF,              \* assignedPsychologueId / psychologueId
     decision |-> UNDEF,         \* review decision, makeDecision decision
     reason |-> UNDEF,           \* rejectionReason, comments
     prev |-> 0,                 \* previousCandidatureId
     site |-> UNDEF,             \* siteId (and departmentId)
     email |-> UNDEF,
     interview |-> FALSE,        \* dto.technicalInterview given
     sendCredentials |-> TRUE,
     logicalTestId |-> UNDEF,
     optionalLogicalTestId |-> UNDEF,
     includePersonalityTest |-> TRUE,
     examDate |-> UNDEF,
     newStatus |-> UNDEF,
     by |-> Actor,
     parentId |-> UNDEF,         \* testId / questionId / classificationId
     parentIds |-> <<>>,         \* questionIds / propositionIds of a batch
     languageCode |-> UNDEF,     \* languageCode / requestedLang / code
     translations |-> <<>>,      \* translations of an upsert, in array order
     items |-> <<>>,             \* dto.classifications, in array order
     code |-> UNDEF,             \* CreateTestDto.code
     isTutorial |-> FALSE,       \* dto.isTutorial ?? false
     tutorialTestId |-> UNDEF,
     isActive |-> {}]            \* dto.isActive: the flag when given, else empty

NoReq == [op |-> "none", id |-> 0, dto |-> NoDto, cand |-> NoCand, app |-> NoApp,
          personalityTestId |-> UNDEF, language |-> NULL,
          test |-> {}, view |-> NULL]

\* prisma findUnique on the two tables
FindApplication(id) ==
    IF id \in 1..Len(jobApplications) THEN jobApplications[id] ELSE NoApp
FindCandidature(id) ==
    IF id \in 1..Len(candidatures) THEN candidatures[id] ELSE NoCand

\* include: { candidature: true } of a job application
CandidaturesOf(appId) ==
    {c \in 1..Len(candidatures) : candidatures[c].jobApplicationId = appId}

\* a candidatures table without the unique index on job_application_id
NoUniqueIndex(appId) == TRUE

\* unique index candidatures_job_application_id_key
UniqueJobApplicationId(appId) == CandidaturesOf(appId) = {}

\* user.findUnique + role check
IsPsychologue(id) == id \in Psychologues

Transition(cid, from, to, by) ==
    [candidatureId |-> cid, fromStatus |-> from, toStatus |-> to, transitionedBy |-> by]

TransitionsOf(cid) == SelectSeq(transitions, LAMBDA t : t.candidatureId = cid)

\* What a method returns: a value, or an HTTP exception with its message
Result(kind, message) ==
    [kind |-> kind, message |-> message, emailSent |-> FALSE, temporaryPassword |-> FALSE,
     value |-> NULL]
Ok == Result("ok", "")
Pending == Result("none", "")
PersistenceError == Result("PersistenceError", "")

Finish(p, outcome) ==
    /\ pc' = [pc EXCEPT ![p] = "idle"]
    /\ req' = [req EXCEPT ![p] = NoReq]
    /\ res' = [res EXCEPT ![p] = outcome]

Goto(p, label, r) ==
    /\ pc' = [pc EXCEPT ![p] = label]
    /\ req' = [req EXCEPT ![p] = r]
    /\ UNCHANGED res

\* A caller invokes a method; its response is pending until the method returns
Call(p, op, id, dto) ==
    /\ pc[p] = "idle"
    /\ pc' = [pc EXCEPT ![p] = "called"]
    /\ req' = [req EXCEPT ![p] = [NoReq EXCEPT !.op = op, !.id = id, !.dto = dto]]
    /\ res' = [res EXCEPT ![p] = Pending]
    /\ UNCHANGED <<db, outbox, content>>


\* A persistence call of the pending write phase throws: a transaction is
\* rolled back, a single statement is not executed; the method rejects.
Fail(p) ==
    /\ pc[p] \notin {"idle", "called", "notify", "return", "invalidate", "cacheSet"}
    /\ Finish(p, PersistenceError)
    /\ UNCHANGED <<db, outbox, content>>

(***************************************************************************)
(* JobApplicationsService                                                  *)
(***************************************************************************)

\* JobApplicationsService.create: checks up to the duplicate lookup
JobApplicationCreateGuard(dto) ==
    IF dto.site \notin Sites
      THEN Result("NotFound", "Site not found")
    ELSE IF \E a \in 1..Len(jobApplications) :
               /\ jobApplications[a].candidateId = Candidate
               /\ jobApplications[a].status = "pending"
      THEN Result("Conflict", "You already have a pending application for this position")
    ELSE Ok

JobApplicationCreateRead(p) ==
    LET guard == JobApplicationCreateGuard(req[p].dto) IN
    /\ pc[p] = "called" /\ req[p].op = "jobApplication.create"
    /\ UNCHANGED <<db, outbox, content>>
    /\ IF guard # Ok THEN Finish(p, guard) ELSE Goto(p, "insert", req[p])

\* JobApplicationsService.create: prisma.jobApplication.create
JobApplicationCreateInsert(p) ==
    /\ pc[p] = "insert" /\ req[p].op = "jobApplication.create"
    /\ Len(jobApplications) < MaxApps
    /\ jobApplications' =
         Append(jobApplications, NewApplication(Candidate, "pending", NULL))
    /\ Finish(p, Ok)
    /\ UNCHANGED <<candidatures, transitions, users, outbox, content>>

\* review without the check that the application is still pending
ReviewAnyStatus(application, dto) ==
    IF application.status = "none"
      THEN Result("NotFound", "Job application not found")
    ELSE IF dto.decision = "rejected" /\ dto.reason = UNDEF
      THEN Result("BadRequest", "Rejection reason is required when rejecting an application")
    ELSE Ok

\* JobApplicationsService.review: findUnique and the two guards
ReviewGuard(application, dto) ==
    IF application.status = "none"
      THEN Result("NotFound", "Job application not found")
    ELSE IF application.status # "pending"
      THEN Result("BadRequest", "Application has already been " \o application.status)
    ELSE IF dto.decision = "rejected" /\ dto.reason = UNDEF
      THEN Result("BadRequest", "Rejection reason is required when rejecting an application")
    ELSE Ok

ReviewRead(p) ==
    LET application == FindApplication(req[p].id)
        guard == ReviewGuard(application, req[p].dto)
    IN
    /\ pc[p] = "called" /\ req[p].op = "review"
    /\ UNCHANGED <<db, outbox, content>>
    /\ IF guard # Ok THEN Finish(p, guard)
       ELSE Goto(p, "tx", [req[p] EXCEPT !.app = application])

\* the candidature review creates inside its transaction
ReviewCandidature(appId) == NewCandidature(appId)

\* review that records the decision without creating the candidature
ReviewTxStatusOnly(p) ==
    LET id == req[p].id
        newStatus == IF req[p].dto.decision = "approved" THEN "approved" ELSE "rejected"
    IN
    /\ pc[p] = "tx" /\ req[p].op = "review"
    /\ UNCHANGED <<candidatures, transitions, users, outbox, content>>
    /\ jobApplications' = [jobApplications EXCEPT
           ![id].status = newStatus, ![id].reviewedBy = req[p].dto.by]
    /\ Finish(p, Ok)

\* JobApplicationsService.review: the $transaction
ReviewTx(p) ==
    LET id == req[p].id
        newStatus == IF req[p].dto.decision = "approved" THEN "approved" ELSE "rejected"
    IN
    /\ pc[p] = "tx" /\ req[p].op = "review"
    /\ UNCHANGED <<transitions, users, outbox, content>>
    /\ IF req[p].dto.decision = "approved"
         THEN IF UniqueJobApplicationId(id)
                THEN /\ Len(candidatures) < MaxCands
                     /\ jobApplications' = [jobApplications EXCEPT
                            ![id].status = newStatus, ![id].reviewedBy = req[p].dto.by]
                     /\ candidatures' = Append(candidatures, ReviewCandidature(id))
                     /\ Finish(p, Ok)
                ELSE \* unique violation: the transaction is rolled back
                     /\ UNCHANGED <<jobApplications, candidatures>>
                     /\ Finish(p, PersistenceError)
         ELSE /\ jobApplications' = [jobApplications EXCEPT
                     ![id].status = newStatus, ![id].reviewedBy = req[p].dto.by]
              /\ UNCHANGED candidatures
              /\ Finish(p, Ok)

\* JobApplicationsService.withdraw: findUnique and the guards
WithdrawGuard(application, dto) ==
    IF application.status = "none"
      THEN Result("NotFound", "Job application not found")
    ELSE IF application.candidateId # dto.by
      THEN Result("Forbidden", "You can only withdraw your own applications")
    ELSE IF application.status # "pending"
      THEN Result("BadRequest", "Cannot withdraw application with status: " \o application.status)
    ELSE Ok

WithdrawRead(p) ==
    LET application == FindApplication(req[p].id)
        guard == WithdrawGuard(application, req[p].dto)
    IN
    /\ pc[p] = "called" /\ req[p].op = "withdraw"
    /\ UNCHANGED <<db, outbox, content>>
    /\ IF guard # Ok THEN Finish(p, guard)
       ELSE Goto(p, "update", [req[p] EXCEPT !.app = application])

\* JobApplicationsService.withdraw: prisma.jobApplication.update
WithdrawUpdate(p) ==
    /\ pc[p] = "update" /\ req[p].op = "withdraw"
    /\ jobApplications' = [jobApplications EXCEPT ![req[p].id].status = "withdrawn"]
    /\ Finish(p, Ok)
    /\ UNCHANGED <<candidatures, transitions, users, outbox, content>>

(***************************************************************************)
(* CandidaturesService: the three creation modes                           *)
(***************************************************************************)

\* create without the check that the job application is approved
CreateFromAnyStatus(jobApplication, owned, dto) ==
    IF jobApplication.status = "none"
      THEN Result("NotFound", "Job application not found")
    ELSE IF owned # {}
      THEN Result("Conflict", "Job application already has a candidature")
    ELSE IF dto.psy # UNDEF /\ ~IsPsychologue(dto.psy)
      THEN Result("BadRequest", "Invalid psychologue ID")
    ELSE Ok

\* CandidaturesService.create: reads and guards
CreateGuard(jobApplication, owned, dto) ==
    IF jobApplication.status = "none"
      THEN Result("NotFound", "Job application not found")
    ELSE IF jobApplication.status # "approved"
      THEN Result("BadRequest", "Job application must be approved before creating candidature")
    ELSE IF owned # {}
      THEN Result("Conflict", "Job application already has a candidature")
    ELSE IF dto.psy # UNDEF /\ ~IsPsychologue(dto.psy)
      THEN Result("BadRequest", "Invalid psychologue ID")
    ELSE Ok

CreateRead(p) ==
    LET jobApplication == FindApplication(req[p].id)
        guard == CreateGuard(jobApplication, CandidaturesOf(req[p].id), req[p].dto)
    IN
    /\ pc[p] = "called" /\ req[p].op = "create"
    /\ UNCHANGED <<db, outbox, content>>
    /\ IF guard # Ok THEN Finish(p, guard)
       ELSE Goto(p, "insert", [req[p] EXCEPT !.app = jobApplication])

\* the row CandidaturesService.create inserts
CreatedCandidature(appId, dto) ==
    [NewCandidature(appId) EXCEPT
        !.assignedPsychologueId = IF dto.psy # UNDEF THEN dto.psy ELSE NULL,
        !.assignedBy = IF dto.psy # UNDEF THEN dto.by ELSE NULL,
        !.examDate = IF dto.examDate # UNDEF THEN dto.examDate ELSE NULL,
        !.status = IF dto.psy # UNDEF THEN "assigned" ELSE "pending"]

\* the row CandidaturesService.createManual inserts
ManualCandidature(appId, dto) ==
    [NewCandidature(appId) EXCEPT
        !.assignedPsychologueId = IF dto.psy # UNDEF THEN dto.psy ELSE NULL,
        !.assignedBy = IF dto.psy # UNDEF THEN dto.by ELSE NULL,
        !.previousCandidatureId = dto.prev,
        !.isReevaluation = (dto.prev # 0),
        !.status = IF dto.psy # UNDEF THEN "assigned" ELSE "pending"]

\* CandidaturesService.create: prisma.candidature.create (not in a transaction)
CreateInsert(p) ==
    /\ pc[p] = "insert" /\ req[p].op = "create"
    /\ UNCHANGED <<jobApplications, transitions, users, outbox, content>>
    /\ IF UniqueJobApplicationId(req[p].id)
         THEN /\ Len(candidatures) < MaxCands
              /\ candidatures' = Append(candidatures, CreatedCandidature(req[p].id, req[p].dto))
              /\ IF req[p].dto.psy # UNDEF
                   THEN Goto(p, "log", [req[p] EXCEPT !.cand = candidatures'[Len(candidatures')],
                                                      !.id = Len(candidatures')])
                   ELSE Finish(p, Ok)
         ELSE /\ UNCHANGED candidatures
              /\ Finish(p, PersistenceError)

\* CandidaturesService.create: prisma.candidatureStateTransition.create
CreateLog(p) ==
    /\ pc[p] = "log" /\ req[p].op = "create"
    /\ Len(transitions) < MaxLog
    /\ transitions' = Append(transitions,
                             Transition(req[p].id, "pending", "assigned", req[p].dto.by))
    /\ Finish(p, Ok)
    /\ UNCHANGED <<jobApplications, candidatures, users, outbox, content>>

\* CandidaturesService.createManual: reads and guards
CreateManualGuard(dto) ==
    IF dto.site \notin Sites
      THEN Result("NotFound", "Site not found")
    ELSE IF dto.prev # 0 /\ FindCandidature(dto.prev).status = "none"
      THEN Result("NotFound", "Previous candidature not found")
    ELSE IF dto.psy # UNDEF /\ ~IsPsychologue(dto.psy)
      THEN Result("BadRequest", "Invalid psychologue ID")
    ELSE Ok

CreateManualRead(p) ==
    LET guard == CreateManualGuard(req[p].dto) IN
    /\ pc[p] = "called" /\ req[p].op = "createManual"
    /\ UNCHANGED <<db, outbox, content>>
    /\ IF guard # Ok THEN Finish(p, guard) ELSE Goto(p, "tx", req[p])

\* CandidaturesService.createManual: the $transaction
CreateManualTx(p) ==
    LET appId == Len(jobApplications) + 1 IN
    /\ pc[p] = "tx" /\ req[p].op = "createManual"
    /\ Len(jobApplications) < MaxApps
    /\ Len(candidatures) < MaxCands
    /\ jobApplications' =
         Append(jobApplications, NewApplication(Candidate, "approved", req[p].dto.by))
    /\ candidatures' = Append(candidatures, ManualCandidature(appId, req[p].dto))
    /\ Finish(p, Ok)
    /\ UNCHANGED <<transitions, users, outbox, content>>

\* createLegacy without the lookup of the email
CreateLegacySiteOnly(dto) ==
    IF dto.site \notin Sites THEN Result("NotFound", "Site not found") ELSE Ok

\* CandidaturesService.createLegacy: reads and guards
CreateLegacyGuard(dto) ==
    IF dto.email \in users
      THEN Result("Conflict", "Email already exists")
    ELSE IF dto.site \notin Sites
      THEN Result("NotFound", "Site not found")
    ELSE Ok

CreateLegacyRead(p) ==
    LET guard == CreateLegacyGuard(req[p].dto) IN
    /\ pc[p] = "called" /\ req[p].op = "createLegacy"
    /\ UNCHANGED <<db, outbox, content>>
    /\ IF guard # Ok THEN Finish(p, guard) ELSE Goto(p, "tx", req[p])

\* CandidaturesService.createLegacy: the $transaction
CreateLegacyTx(p) ==
    LET appId == Len(jobApplications) + 1 IN
    /\ pc[p] = "tx" /\ req[p].op = "createLegacy"
    /\ UNCHANGED <<transitions, outbox, content>>
    /\ IF req[p].dto.email \notin users
         THEN /\ Len(jobApplications) < MaxApps
              /\ Len(candidatures) < MaxCands
              /\ users' = users \cup {req[p].dto.email}
              /\ jobApplications' =
                   Append(jobApplications,
                          NewApplication(req[p].dto.email, "approved", req[p].dto.by))
              /\ candidatures' =
                   Append(candidatures,
                          [NewCandidature(appId) EXCEPT
                              !.technicalInterview = req[p].dto.interview])
              /\ IF req[p].dto.sendCredentials
                   THEN Goto(p, "notify", req[p])
                   ELSE Finish(p, [Ok EXCEPT !.temporaryPassword = TRUE])
         ELSE \* unique index users_email_key: the transaction is rolled back
              /\ UNCHANGED <<jobApplications, candidatures, users>>
              /\ Finish(p, PersistenceError)

\* CandidaturesService.createLegacy: sendAccountCreatedEmail in try/catch
CreateLegacyNotify(p) ==
    /\ pc[p] = "notify" /\ req[p].op = "createLegacy"
    /\ UNCHANGED <<db, content>>
    /\ \/ /\ outbox' = outbox \cup {req[p].dto.email}
          /\ Finish(p, [Ok EXCEPT !.emailSent = TRUE])
       \/ /\ UNCHANGED outbox
          /\ Finish(p, Ok)

(***************************************************************************)
(* CandidaturesService: updates and status transitions                     *)
(***************************************************************************)

\* the log insert of a transaction (only when guard holds)
LogTransition(guard, cid, from, to, by) ==
    IF guard
      THEN /\ Len(transitions) < MaxLog
           /\ transitions' = Append(transitions, Transition(cid, from, to, by))
      ELSE UNCHANGED transitions

\* CandidaturesService.update: reads and guards
UpdateGuard(candidature, dto) ==
    IF candidature.status = "none"
      THEN Result("NotFound", "Candidature not found")
    ELSE IF dto.psy \notin {UNDEF, NULL} /\ ~IsPsychologue(dto.psy)
      THEN Result("BadRequest", "Invalid psychologue ID")
    ELSE Ok

UpdateRead(p) ==
    LET candidature == FindCandidature(req[p].id)
        guard == UpdateGuard(candidature, req[p].dto)
    IN
    /\ pc[p] = "called" /\ req[p].op = "update"
    /\ UNCHANGED <<db, outbox, content>>
    /\ IF guard # Ok THEN Finish(p, guard)
       ELSE Goto(p, "update", [req[p] EXCEPT !.cand = candidature])

\* CandidaturesService.update: prisma.candidature.update
UpdateWrite(p) ==
    LET id == req[p].id
        dto == req[p].dto
    IN
    /\ pc[p] = "update" /\ req[p].op = "update"
    /\ candidatures' = [candidatures EXCEPT
          ![id].examDate = IF dto.examDate # UNDEF THEN dto.examDate ELSE @,
          ![id].assignedPsychologueId = IF dto.psy # UNDEF THEN dto.psy ELSE @,
          ![id].assignedBy = IF dto.psy # UNDEF THEN dto.by ELSE @]
    /\ Finish(p, Ok)
    /\ UNCHANGED <<jobApplications, transitions, users, outbox, content>>

\* CandidaturesService.assignPsychologue: reads and guards
AssignPsychologueGuard(candidature, dto) ==
    IF dto.by = UNDEF
      THEN Result("BadRequest", "Current user ID is required")
    ELSE IF candidature.status = "none"
      THEN Result("NotFound", "Candidature not found")
    ELSE IF ~IsPsychologue(dto.psy)
      THEN Result("BadRequest", "Invalid psychologue ID")
    ELSE Ok

AssignPsychologueRead(p) ==
    LET candidature == FindCandidature(req[p].id)
        guard == AssignPsychologueGuard(candidature, req[p].dto)
    IN
    /\ pc[p] = "called" /\ req[p].op = "assignPsychologue"
    /\ UNCHANGED <<db, outbox, content>>
    /\ IF guard # Ok THEN Finish(p, guard)
       ELSE Goto(p, "tx", [req[p] EXCEPT !.cand = candidature])

\* an assignPsychologue that always stores status assigned
AlwaysAssigned(candidature) == "assigned"

\* the status assignPsychologue writes, from the row it read
AssignPsychologueStatus(candidature) ==
    IF candidature.status = "pending" THEN "assigned" ELSE candidature.status

\* CandidaturesService.assignPsychologue: the $transaction
AssignPsychologueTx(p) ==
    LET id == req[p].id
        candidature == req[p].cand
    IN
    /\ pc[p] = "tx" /\ req[p].op = "assignPsychologue"
    /\ LogTransition(candidature.status = "pending",
                     id, candidature.status, "assigned", req[p].dto.by)
    /\ candidatures' = [candidatures EXCEPT
          ![id].assignedPsychologueId = req[p].dto.psy,
          ![id].assignedBy = req[p].dto.by,
          ![id].assignmentDate = "now",
          ![id].status = AssignPsychologueStatus(candidature)]
    /\ Finish(p, Ok)
    /\ UNCHANGED <<jobApplications, users, outbox, content>>


\* personalityTest.findFirst({ where: { isActive: true } })
FirstActivePersonalityTest ==
    IF ActivePersonalityTests = {} THEN UNDEF
    ELSE CHOOSE t \in ActivePersonalityTests : TRUE

\* CandidaturesService.assignTests: reads and guards
AssignTestsGuard(candidature, dto) ==
    IF candidature.status = "none"
      THEN Result("NotFound", "Candidature not found")
    ELSE IF candidature.status \notin {"pending", "assigned"}
      THEN Result("BadRequest",
                  "Tests can only be assigned to pending or assigned candidatures")
    ELSE IF dto.logicalTestId \notin LogicalTests
      THEN Result("NotFound", "Logical test not found")
    ELSE IF dto.optionalLogicalTestId # UNDEF
            /\ dto.optionalLogicalTestId \notin LogicalTests
      THEN Result("NotFound", "Optional logical test not found")
    ELSE Ok

AssignTestsRead(p) ==
    LET candidature == FindCandidature(req[p].id)
        dto == req[p].dto
        guard == AssignTestsGuard(candidature, dto)
    IN
    /\ pc[p] = "called" /\ req[p].op = "assignTests"
    /\ UNCHANGED <<db, outbox, content>>
    /\ IF guard # Ok THEN Finish(p, guard)
       ELSE Goto(p, "tx", [req[p] EXCEPT
                  !.cand = candidature,
                  !.personalityTestId =
                      IF dto.includePersonalityTest
                        THEN FirstActivePersonalityTest ELSE UNDEF])

\* an assignTests that keeps the status it read
KeepsStatus(candidature) == candidature.status

\* "Determine new status": both branches yield assigned
AssignTestsNewStatus(candidature) ==
    IF candidature.assignedPsychologueId # NULL THEN "assigned" ELSE "assigned"

\* CandidaturesService.assignTests: the $transaction
AssignTestsTx(p) ==
    LET id == req[p].id
        dto == req[p].dto
        candidature == req[p].cand
        newStatus == AssignTestsNewStatus(candidature)
    IN
    /\ pc[p] = "tx" /\ req[p].op = "assignTests"
    /\ LogTransition(candidature.status # newStatus,
                     id, candidature.status, newStatus, dto.by)
    /\ candidatures' = [candidatures EXCEPT
          ![id].assignedLogicalTestId = dto.logicalTestId,
          ![id].assignedOptionalLogicalTestId =
              IF dto.optionalLogicalTestId # UNDEF THEN dto.optionalLogicalTestId ELSE @,
          ![id].assignedPersonalityTestId =
              IF req[p].personalityTestId # UNDEF THEN req[p].personalityTestId ELSE @,
          ![id].examDate =
              IF dto.examDate # UNDEF THEN dto.examDate ELSE candidature.examDate,
          ![id].status = newStatus]
    /\ Finish(p, Ok)
    /\ UNCHANGED <<jobApplications, users, outbox, content>>

\* CandidaturesService.makeDecision: reads and guards
MakeDecisionGuard(candidature) ==
    IF candidature.status = "none"
      THEN Result("NotFound", "Candidature not found")
    ELSE IF candidature.status \notin {"completed", "in_review"}
      THEN Result("BadRequest",
                  "Decision can only be made on completed or in-review candidatures")
    ELSE Ok

MakeDecisionRead(p) ==
    LET candidature == FindCandidature(req[p].id)
        guard == MakeDecisionGuard(candidature)
    IN
    /\ pc[p] = "called" /\ req[p].op = "makeDecision"
    /\ UNCHANGED <<db, outbox, content>>
    /\ IF guard # Ok THEN Finish(p, guard)
       ELSE Goto(p, "tx", [req[p] EXCEPT !.cand = candidature])

\* CandidaturesService.makeDecision: the $transaction
MakeDecisionTx(p) ==
    LET id == req[p].id
        dto == req[p].dto
    IN
    /\ pc[p] = "tx" /\ req[p].op = "makeDecision"
    /\ LogTransition(TRUE, id, req[p].cand.status, "evaluated", dto.by)
    /\ candidatures' = [candidatures EXCEPT
          ![id].decision = dto.decision,
          ![id].decisionDate = "now",
          ![id].decisionBy = dto.by,
          ![id].decisionComments = IF dto.reason # UNDEF THEN dto.reason ELSE @,
          ![id].status = "evaluated"]
    /\ Finish(p, Ok)
    /\ UNCHANGED <<jobApplications, users, outbox, content>>

\* archive without the check that the candidature is evaluated
ArchiveAnyStatus(candidature) ==
    IF candidature.status = "none"
      THEN Result("NotFound", "Candidature not found")
    ELSE Ok

\* CandidaturesService.archive: reads and guards
ArchiveGuard(candidature) ==
    IF candidature.status = "none"
      THEN Result("NotFound", "Candidature not found")
    ELSE IF candidature.status # "evaluated"
      THEN Result("BadRequest", "Only evaluated candidatures can be archived")
    ELSE Ok

ArchiveRead(p) ==
    LET candidature == FindCandidature(req[p].id)
        guard == ArchiveGuard(candidature)
    IN
    /\ pc[p] = "called" /\ req[p].op = "archive"
    /\ UNCHANGED <<db, outbox, content>>
    /\ IF guard # Ok THEN Finish(p, guard)
       ELSE Goto(p, "tx", [req[p] EXCEPT !.cand = candidature])

\* CandidaturesService.archive: the $transaction
ArchiveTx(p) ==
    LET id == req[p].id IN
    /\ pc[p] = "tx" /\ req[p].op = "archive"
    /\ LogTransition(TRUE, id, req[p].cand.status, "archived", req[p].dto.by)
    /\ candidatures' = [candidatures EXCEPT ![id].status = "archived"]
    /\ Finish(p, Ok)
    /\ UNCHANGED <<jobApplications, users, outbox, content>>

\* CandidaturesService.updateStatus: read
UpdateStatusGuard(candidature) ==
    IF candidature.status = "none"
      THEN Result("NotFound", "Candidature not found")
    ELSE Ok

UpdateStatusRead(p) ==
    LET candidature == FindCandidature(req[p].id)
        guard == UpdateStatusGuard(candidature)
    IN
    /\ pc[p] = "called" /\ req[p].op = "updateStatus"
    /\ UNCHANGED <<db, outbox, content>>
    /\ IF guard # Ok THEN Finish(p, guard)
       ELSE Goto(p, "tx", [req[p] EXCEPT !.cand = candidature])

\* CandidaturesService.updateStatus: the $transaction
UpdateStatusTx(p) ==
    LET id == req[p].id
        newStatus == req[p].dto.newStatus
    IN
    /\ pc[p] = "tx" /\ req[p].op = "updateStatus"
    /\ LogTransition(TRUE, id, req[p].cand.status, newStatus, req[p].dto.by)
    /\ candidatures' = [candidatures EXCEPT ![id].status = newStatus]
    /\ Finish(p, Ok)
    /\ UNCHANGED <<jobApplications, users, outbox, content>>

(***************************************************************************)
(* TranslationsService: language registry and translation writes           *)
(***************************************************************************)

\* shared/constants: the hardcoded fallback language
DEFAULT_LANGUAGE_CODE == "fr"

Language(code, isActive, isDefault) ==
    [code |-> code, isActive |-> isActive, isDefault |-> isDefault]

TranslationRow(model, parentId, languageCode, text) ==
    [model |-> model, parentId |-> parentId, languageCode |-> languageCode, text |-> text,
     description |-> NULL]

\* LogicalTestTranslationDto: the required texts, and the optional description
TranslationDto(languageCode, text, description) ==
    [languageCode |-> languageCode, text |-> text, description |-> description]

\* language.findUnique({ where: { code } })
FindLanguage(code) == {l \in languages : l.code = code}

\* TranslationsService.getDefaultLanguageCode
GetDefaultLanguageCode ==
    LET defaultLang == {l \in languages : l.isDefault} IN
    IF defaultLang = {} THEN DEFAULT_LANGUAGE_CODE
    ELSE (CHOOSE l \in defaultLang : TRUE).code

\* TranslationsService.resolveLanguageCode
ResolveLanguageCode(requestedLang) ==
    IF \E l \in languages : l.code = requestedLang /\ l.isActive
      THEN requestedLang
      ELSE GetDefaultLanguageCode

\* TranslationsService.validateLanguageCodes: the invalid codes
InvalidLanguageCodes(codes) ==
    {c \in codes : ~\E l \in languages : l.code = c /\ l.isActive}

\* TranslationsService.upsertLanguage: one prisma upsert
UpsertLanguage(p) ==
    LET code == req[p].dto.languageCode IN
    /\ pc[p] = "called" /\ req[p].op = "upsertLanguage"
    /\ languages' = IF FindLanguage(code) = {}
                      THEN languages \cup {Language(code, TRUE, FALSE)}
                      ELSE languages
    /\ Finish(p, Ok)
    /\ UNCHANGED <<db, outbox, translations, classifications, catalogue>>

\* toggleLanguageActive without the refusal of the default language
ToggleAnyLanguage(language) ==
    IF language = {} THEN Result("NotFound", "Language not found") ELSE Ok

\* TranslationsService.toggleLanguageActive: findUnique and the guards
ToggleLanguageActiveGuard(language) ==
    IF language = {}
      THEN Result("NotFound", "Language not found")
    ELSE IF \E l \in language : l.isDefault
      THEN Result("BadRequest", "Cannot deactivate the default language")
    ELSE Ok

ToggleLanguageActiveRead(p) ==
    LET language == FindLanguage(req[p].dto.languageCode)
        guard == ToggleLanguageActiveGuard(language)
    IN
    /\ pc[p] = "called" /\ req[p].op = "toggleLanguageActive"
    /\ UNCHANGED <<db, outbox, content>>
    /\ IF guard # Ok THEN Finish(p, guard)
       ELSE Goto(p, "update", [req[p] EXCEPT !.language = CHOOSE l \in language : TRUE])

\* TranslationsService.toggleLanguageActive: prisma.language.update
ToggleLanguageActiveUpdate(p) ==
    LET code == req[p].dto.languageCode IN
    /\ pc[p] = "update" /\ req[p].op = "toggleLanguageActive"
    /\ languages' = {IF l.code = code
                       THEN [l EXCEPT !.isActive = ~req[p].language.isActive]
                       ELSE l : l \in languages}
    /\ Finish(p, Ok)
    /\ UNCHANGED <<db, outbox, translations, classifications, catalogue>>

\* the prisma model a translation method works on
TranslationModel(op) ==
    CASE op \in {"upsertTestTranslations", "deleteTestTranslation",
                 "getTestTranslation"} -> "logicalTestTranslation"
      [] op \in {"upsertQuestionTranslations", "deleteQuestionTranslation",
                 "getQuestionTranslation", "getQuestionTranslationsBatch"}
            -> "logicalQuestionTranslation"
      [] op \in {"getPropositionTranslation", "getPropositionTranslationsBatch"}
            -> "mcqPropositionTranslation"
      [] OTHER -> "none"

\* findMany({ where: { parentId } }) on one translation model
TranslationsOfParent(model, parentId) ==
    {t \in translations : t.model = model /\ t.parentId = parentId}

\* upsertTestTranslations / upsertQuestionTranslations: validateLanguageCodes
UpsertTranslationsRead(p) ==
    LET ts == req[p].dto.translations
        invalidCodes == InvalidLanguageCodes({ts[i].languageCode : i \in 1..Len(ts)})
    IN
    /\ pc[p] = "called"
    /\ req[p].op \in {"upsertTestTranslations", "upsertQuestionTranslations"}
    /\ UNCHANGED <<db, outbox, content>>
    /\ IF invalidCodes # {}
         THEN Finish(p, Result("BadRequest", "Invalid or inactive language codes"))
         ELSE Goto(p, "tx", req[p])

\* the rows after the upserts of ts[1..n], applied in array order
RECURSIVE Upserted(_, _, _, _, _)
Upserted(rows, model, parentId, ts, n) ==
    IF n = 0 THEN rows
    ELSE LET before == Upserted(rows, model, parentId, ts, n - 1)
             t == ts[n]
             existing == {r \in before : /\ r.model = model /\ r.parentId = parentId
                                           /\ r.languageCode = t.languageCode}
             \* create stores an absent description as null; update leaves the
             \* stored description as it is when the dto has none
             description == IF t.description # UNDEF THEN t.description
                            ELSE IF existing # {} THEN (CHOOSE r \in existing : TRUE).description
                            ELSE NULL
         IN (before \ existing)
            \cup {[TranslationRow(model, parentId, t.languageCode, t.text)
                      EXCEPT !.description = description]}

\* upsertTestTranslations / upsertQuestionTranslations: prisma.$transaction(operations)
UpsertTranslationsTx(p) ==
    LET ts == req[p].dto.translations IN
    /\ pc[p] = "tx"
    /\ req[p].op \in {"upsertTestTranslations", "upsertQuestionTranslations"}
    /\ translations' = Upserted(translations, TranslationModel(req[p].op),
                                req[p].dto.parentId, ts, Len(ts))
    /\ Finish(p, Ok)
    /\ UNCHANGED <<db, outbox, languages, classifications, catalogue>>

\* TranslationsService.getTestTranslations: findMany of the parent's rows
GetTranslationsCall(p) ==
    /\ pc[p] = "called" /\ req[p].op = "getTestTranslations"
    /\ Finish(p, [Ok EXCEPT !.value =
                    TranslationsOfParent("logicalTestTranslation", req[p].dto.parentId)])
    /\ UNCHANGED <<db, outbox, content>>

\* TranslationsService.ensureNotDeletingDefaultTranslation
EnsureNotDeletingDefaultTranslation(model, parentId, languageCode) ==
    IF /\ languageCode = GetDefaultLanguageCode
       /\ Cardinality(TranslationsOfParent(model, parentId)) <= 1
      THEN Result("BadRequest", "Cannot delete the last remaining translation")
      ELSE Ok

\* deleteTestTranslation / deleteQuestionTranslation: the check before the delete
DeleteTranslationRead(p) ==
    LET guard == EnsureNotDeletingDefaultTranslation(
                     TranslationModel(req[p].op), req[p].dto.parentId,
                     req[p].dto.languageCode)
    IN
    /\ pc[p] = "called"
    /\ req[p].op \in {"deleteTestTranslation", "deleteQuestionTranslation"}
    /\ UNCHANGED <<db, outbox, content>>
    /\ IF guard # Ok THEN Finish(p, guard) ELSE Goto(p, "delete", req[p])

\* deleteTestTranslation / deleteQuestionTranslation: prisma delete of one row
DeleteTranslationWrite(p) ==
    LET row == {t \in TranslationsOfParent(TranslationModel(req[p].op), req[p].dto.parentId)
                  : t.languageCode = req[p].dto.languageCode}
    IN
    /\ pc[p] = "delete"
    /\ req[p].op \in {"deleteTestTranslation", "deleteQuestionTranslation"}
    /\ translations' = translations \ row
    /\ IF row = {}
         THEN Finish(p, Result("NotFound", "Record to delete does not exist"))
         ELSE Finish(p, Ok)
    /\ UNCHANGED <<db, outbox, languages, classifications, catalogue>>

(***************************************************************************)
(* TranslationsService: localized reads                                    *)
(***************************************************************************)

\* a nullable row is the set of at most one row; null is the empty set
NoRow == {}

\* findUnique({ where: { parentId_languageCode } }): the row, or null
FindTranslation(model, parentId, languageCode) ==
    {t \in TranslationsOfParent(model, parentId) : t.languageCode = languageCode}

\* getTestTranslation / getQuestionTranslation: the value returned
GetTranslation(model, parentId, requestedLang) ==
    LET lang == ResolveLanguageCode(requestedLang)
        translation == FindTranslation(model, parentId, lang)
    IN IF translation = NoRow /\ lang # DEFAULT_LANGUAGE_CODE
         THEN FindTranslation(model, parentId, DEFAULT_LANGUAGE_CODE)
         ELSE translation

\* getTestTranslation / getQuestionTranslation: reads only, returns the row or null
GetTranslationCall(p) ==
    /\ pc[p] = "called"
    /\ req[p].op \in {"getTestTranslation", "getQuestionTranslation"}
    /\ Finish(p, [Ok EXCEPT !.value =
                    GetTranslation(TranslationModel(req[p].op), req[p].dto.parentId,
                                   req[p].dto.languageCode)])
    /\ UNCHANGED <<db, outbox, content>>

\* the elements of an array
Range(seq) == {seq[i] : i \in 1..Len(seq)}

\* getQuestionTranslationsBatch: the map returned and the number of findMany calls
GetTranslationsBatch(model, parentIds, requestedLang) ==
    LET lang == ResolveLanguageCode(requestedLang)
        found == {t \in translations : /\ t.model = model
                                       /\ t.parentId \in Range(parentIds)
                                       /\ t.languageCode = lang}
        foundIds == {t.parentId : t \in found}
        missingIds == Range(parentIds) \ foundIds
        fallback == missingIds # {} /\ lang # DEFAULT_LANGUAGE_CODE
        fallbackTranslations ==
            IF fallback
              THEN {t \in translations : /\ t.model = model
                                         /\ t.parentId \in missingIds
                                         /\ t.languageCode = DEFAULT_LANGUAGE_CODE}
              ELSE {}
        all == found \cup fallbackTranslations
    IN [translationMap |->
          [id \in {t.parentId : t \in all} |->
             IF id \in foundIds
               THEN {t \in found : t.parentId = id}
               ELSE {t \in fallbackTranslations : t.parentId = id}],
        lookups |-> IF fallback THEN 2 ELSE 1]

\* getQuestionTranslationsBatch: reads only, returns the map
GetTranslationsBatchCall(p) ==
    /\ pc[p] = "called"
    /\ req[p].op = "getQuestionTranslationsBatch"
    /\ Finish(p, [Ok EXCEPT !.value =
                    GetTranslationsBatch(TranslationModel(req[p].op), req[p].dto.parentIds,
                                         req[p].dto.languageCode)])
    /\ UNCHANGED <<db, outbox, content>>

(***************************************************************************)
(* TestsService: score classifications                                     *)
(***************************************************************************)

\* A row of table logical_tests (defaults of create: main test, active)
LogicalTest(id, code) ==
    [id |-> id, code |-> code, isTutorial |-> FALSE, tutorialTestId |-> NULL,
     isActive |-> TRUE]

\* Two main tests of different codes
SeededTests == {LogicalTest("test1", "D_70"), LogicalTest("test2", "D_2000")}

\* logicalTest.findUnique({ where: { id } })
FindTest(id) == {t \in tests : t.id = id}

\* The logical tests of the store
StoredTests == {t.id : t \in tests}

\* ScoreClassificationItemDto
Item(displayOrder, minScore, maxScore, itemTranslations) ==
    [displayOrder |-> displayOrder, minScore |-> minScore, maxScore |-> maxScore,
     translations |-> itemTranslations]

\* a scoreClassification row with its translation rows (deleted in cascade)
ClassificationRow(testId, item) ==
    [testId |-> testId, displayOrder |-> item.displayOrder,
     minScore |-> item.minScore, maxScore |-> item.maxScore,
     translations |-> Range(item.translations)]

\* scoreClassification.findMany({ where: { testId } })
ClassificationsOf(testId) == {c \in classifications : c.testId = testId}

\* Array.prototype.sort by displayOrder: stable, so equal keys keep array order
RECURSIVE SortByDisplayOrder(_)
SortByDisplayOrder(items) ==
    IF Len(items) <= 1 THEN items
    ELSE LET n == Len(items)
             last == items[n]
             front == SortByDisplayOrder(SubSeq(items, 1, n - 1))
             k == Cardinality({i \in 1..(n - 1) : front[i].displayOrder <= last.displayOrder})
         IN SubSeq(front, 1, k) \o <<last>> \o SubSeq(front, k + 1, n - 1)

\* validateClassificationRanges that skips the comparison of adjacent ranges
ValidateMinMaxOnly(items) ==
    IF \E i \in 1..Len(items) : items[i].minScore > items[i].maxScore
      THEN Result("BadRequest", "minScore cannot be greater than maxScore")
      ELSE Ok

\* TestsService.validateClassificationRanges
ValidateClassificationRanges(items) ==
    LET sorted == SortByDisplayOrder(items) IN
    IF \E i \in 1..Len(sorted) : sorted[i].minScore > sorted[i].maxScore
      THEN Result("BadRequest", "minScore cannot be greater than maxScore")
    ELSE IF \E i \in 2..Len(sorted) : sorted[i].minScore <= sorted[i - 1].maxScore
      THEN Result("BadRequest", "Score range overlap")
    ELSE Ok

\* the language codes of all translations of all items
AllLangCodes(items) ==
    UNION {{t.languageCode : t \in Range(items[i].translations)} : i \in 1..Len(items)}

\* TestsService.upsertClassifications: the checks before the transaction
UpsertClassificationsGuard(testId, items) ==
    IF testId \notin StoredTests
      THEN Result("NotFound", "Test not found")
    ELSE IF ValidateClassificationRanges(items) # Ok
      THEN ValidateClassificationRanges(items)
    ELSE IF InvalidLanguageCodes(AllLangCodes(items)) # {}
      THEN Result("BadRequest", "Invalid or inactive language codes")
    ELSE Ok

UpsertClassificationsRead(p) ==
    LET guard == UpsertClassificationsGuard(req[p].dto.parentId, req[p].dto.items) IN
    /\ pc[p] = "called" /\ req[p].op = "upsertClassifications"
    /\ UNCHANGED <<db, outbox, content>>
    /\ IF guard # Ok THEN Finish(p, guard) ELSE Goto(p, "tx", req[p])

\* migration.sql: score_classifications_test_id_display_order_key, and the
\* key (classificationId, languageCode) of the translation rows
UniqueViolation(items) ==
    \/ \E i, j \in 1..Len(items) : i # j /\ items[i].displayOrder = items[j].displayOrder
    \/ \E i \in 1..Len(items) :
         \E j, k \in 1..Len(items[i].translations) :
            /\ j # k
            /\ items[i].translations[j].languageCode = items[i].translations[k].languageCode

\* upsertClassifications without a transaction: the deleteMany stays applied
\* when a create throws
UpsertClassificationsNoRollback(p) ==
    LET testId == req[p].dto.parentId
        items == req[p].dto.items
    IN
    /\ pc[p] = "tx" /\ req[p].op = "upsertClassifications"
    /\ UNCHANGED <<db, outbox, languages, translations, catalogue>>
    /\ IF UniqueViolation(items)
         THEN /\ Finish(p, Result("Conflict", "Unique constraint failed"))
              /\ classifications' = classifications \ ClassificationsOf(testId)
         ELSE /\ classifications' =
                   (classifications \ ClassificationsOf(testId))
                   \cup {ClassificationRow(testId, items[i]) : i \in 1..Len(items)}
              /\ Goto(p, "invalidate", req[p])

\* TestsService.upsertClassifications: $transaction(deleteMany, create...);
\* a create that violates a unique index throws and rolls the deleteMany back
UpsertClassificationsTx(p) ==
    LET testId == req[p].dto.parentId
        items == req[p].dto.items
    IN
    /\ pc[p] = "tx" /\ req[p].op = "upsertClassifications"
    /\ UNCHANGED <<db, outbox, languages, translations, catalogue>>
    /\ IF UniqueViolation(items)
         THEN /\ Finish(p, Result("Conflict", "Unique constraint failed"))
              /\ UNCHANGED classifications
         ELSE /\ classifications' =
                   (classifications \ ClassificationsOf(testId))
                   \cup {ClassificationRow(testId, items[i]) : i \in 1..Len(items)}
              /\ Goto(p, "invalidate", req[p])

\* getClassifications: the labels a row can show at the resolved language:
\* that language's, else the French one, else translations[0] (any row)
LabelsAt(row, resolvedLang) ==
    LET at(lang) == {t.label : t \in {u \in row.translations : u.languageCode = lang}} IN
    IF at(resolvedLang) # {} THEN at(resolvedLang)
    ELSE IF at("fr") # {} THEN at("fr")
    ELSE IF row.translations # {} THEN {t.label : t \in row.translations}
    ELSE {UNDEF}

\* TestsService.getClassifications read from the store: the possible results
GetClassifications(testId, lang) ==
    LET rows == ClassificationsOf(testId)
        resolvedLang == ResolveLanguageCode(lang)
        labels == UNION {LabelsAt(r, resolvedLang) : r \in rows}
    IN {{[displayOrder |-> r.displayOrder, minScore |-> r.minScore,
          maxScore |-> r.maxScore, label |-> f[r]] : r \in rows}
          : f \in {g \in [rows -> labels] : \A r \in rows : g[r] \in LabelsAt(r, resolvedLang)}}

(***************************************************************************)
(* TestsService: the test catalogue and its read-through cache             *)
(***************************************************************************)

\* Identifiers a created test can get: a generated uuid is referenced nowhere
TestIds == {"test1", "test2", "test3", "test4", "test5"}
FreshTestIds ==
    TestIds \ (StoredTests \cup UNION {{e.key.testId : e \in cache[kind]} : kind \in DOMAIN cache}
                 \cup {t.parentId : t \in translations}
                 \cup {c.testId : c \in classifications})

\* Tests that candidates have attempted (_count.attempts > 0)
AttemptedTests == {"test2"}

\* logicalTest.findUnique({ where: { code_isTutorial } })
FindByCode(code, isTutorial) == {t \in tests : t.code = code /\ t.isTutorial = isTutorial}

\* mapTestResponse: the translation picked for lang: that language's, else
\* the French one, else translations[0] (any row)
NamesAt(rows, lang) ==
    LET named(chosen) == {[name |-> t.text, languageCode |-> t.languageCode] : t \in chosen}
        at(l) == {t \in rows : t.languageCode = l}
    IN
    IF at(lang) # {} THEN named(at(lang))
    ELSE IF at("fr") # {} THEN named(at("fr"))
    ELSE IF rows # {} THEN named(rows)
    ELSE {[name |-> UNDEF, languageCode |-> UNDEF]}

\* mapTestResponse: the classifications of the test labelled for lang
ClassificationViews(testId, lang) ==
    LET rows == ClassificationsOf(testId)
        labels == UNION {LabelsAt(r, lang) : r \in rows}
    IN {{[displayOrder |-> r.displayOrder, minScore |-> r.minScore,
          maxScore |-> r.maxScore, label |-> f[r]] : r \in rows}
          : f \in {g \in [rows -> labels] : \A r \in rows : g[r] \in LabelsAt(r, lang)}}

\* TestsService.mapTestResponse of a row with the translation rows and the
\* classifications it was read with: the possible responses
MapTestRow(test, rows, classificationViews, lang) ==
    UNION {{[id |-> test.id, code |-> test.code, isTutorial |-> test.isTutorial,
             tutorialTestId |-> test.tutorialTestId, isActive |-> test.isActive,
             name |-> n.name, languageCode |-> n.languageCode, classifications |-> c]
              : c \in classificationViews}
             : n \in NamesAt(rows, lang)}

\* mapTestResponse of a row of the store
MapTestResponse(test, lang) ==
    MapTestRow(test, TranslationsOfParent("logicalTestTranslation", test.id),
               ClassificationViews(test.id, lang), lang)

\* REDIS_KEYS.test / REDIS_KEYS.classifications / REDIS_KEYS.questions
CacheKey(kind, testId, lang) == [kind |-> kind, testId |-> testId, lang |-> lang]

\* cacheManager.get / set / del
CacheGet(key) == {e \in cache[key.kind] : e.key = key}
CacheSet(key, view) ==
    [cache EXCEPT ![key.kind] = {e \in @ : e.key # key} \cup {[key |-> key, view |-> view]}]
CacheDel(keys) == [kind \in DOMAIN cache |-> {e \in cache[kind] : e.key \notin keys}]

\* An entry reaches its TTL
CacheExpire ==
    /\ \E kind \in DOMAIN cache : \E e \in cache[kind] :
         cache' = [cache EXCEPT ![kind] = @ \ {e}]
    /\ UNCHANGED <<db, outbox, languages, translations, classifications, tests, pc, req, res>>

\* The view a read-through method computes from the store
StoreViews(op, testId, lang) ==
    IF op = "findOne" THEN MapTestResponse(CHOOSE t \in FindTest(testId) : TRUE, lang)
    ELSE GetClassifications(testId, lang)

\* findOne / getClassifications: cache lookup; a hit is returned as it is
ReadThroughGet(p, op, kind) ==
    LET cached == CacheGet(CacheKey(kind, req[p].dto.parentId, req[p].dto.languageCode)) IN
    /\ pc[p] = "called" /\ req[p].op = op
    /\ UNCHANGED <<db, outbox, content>>
    /\ IF cached # {}
         THEN Finish(p, [Ok EXCEPT !.value = (CHOOSE e \in cached : TRUE).view])
         ELSE Goto(p, "read", req[p])

\* findOne / getClassifications: the store read after a miss
ReadThroughRead(p, op) ==
    /\ pc[p] = "read" /\ req[p].op = op
    /\ UNCHANGED <<db, outbox, content>>
    /\ IF FindTest(req[p].dto.parentId) = {}
         THEN Finish(p, Result("NotFound", "Test not found"))
         ELSE \E view \in StoreViews(op, req[p].dto.parentId, req[p].dto.languageCode) :
                Goto(p, "cacheSet", [req[p] EXCEPT !.view = view])

\* findOne / getClassifications: the response is cached and returned
ReadThroughSet(p, op, kind) ==
    /\ pc[p] = "cacheSet" /\ req[p].op = op
    /\ cache' = CacheSet(CacheKey(kind, req[p].dto.parentId, req[p].dto.languageCode),
                         req[p].view)
    /\ Finish(p, [Ok EXCEPT !.value = req[p].view])
    /\ UNCHANGED <<db, outbox, languages, translations, classifications, tests>>

\* TestsService.findOne
FindOneCacheGet(p) == req[p].op = "findOne" /\ ReadThroughGet(p, "findOne", "test")
FindOneRead(p) == req[p].op = "findOne" /\ ReadThroughRead(p, "findOne")
FindOneCacheSet(p) == req[p].op = "findOne" /\ ReadThroughSet(p, "findOne", "test")

\* TestsService.getClassifications
GetClassificationsCacheGet(p) ==
    req[p].op = "getClassifications"
    /\ ReadThroughGet(p, "getClassifications", "classifications")
GetClassificationsRead(p) ==
    req[p].op = "getClassifications" /\ ReadThroughRead(p, "getClassifications")
GetClassificationsCacheSet(p) ==
    req[p].op = "getClassifications"
    /\ ReadThroughSet(p, "getClassifications", "classifications")

\* a lookup whose failure is not caught
CacheGetRethrows(p) ==
    /\ pc[p] = "called" /\ req[p].op \in {"findOne", "getClassifications"}
    /\ Finish(p, Result("CacheError", ""))
    /\ UNCHANGED <<db, outbox, content>>

\* cacheManager.get throws: the catch falls through to the store read
CacheGetThrows(p) ==
    /\ pc[p] = "called" /\ req[p].op \in {"findOne", "getClassifications"}
    /\ Goto(p, "read", req[p])
    /\ UNCHANGED <<db, outbox, content>>

\* cacheManager.set throws: the catch logs and the response is returned
CacheSetThrows(p) ==
    /\ pc[p] = "cacheSet" /\ req[p].op \in {"findOne", "getClassifications"}
    /\ Finish(p, [Ok EXCEPT !.value = req[p].view])
    /\ UNCHANGED <<db, outbox, content>>

\* The keys invalidateTestCache deletes: three per registered language
InvalidatedKeys(testId) ==
    {CacheKey(kind, testId, l.code)
       : kind \in {"test", "classifications", "questions"}, l \in languages}

\* The tests whose keys the pending write invalidates
InvalidatedTests(p) ==
    IF req[p].op = "createTutorialTest"
      THEN {req[p].dto.parentId} \cup {t.id : t \in req[p].test}
      ELSE {req[p].dto.parentId}

\* What follows invalidateTestCache: upsertClassifications goes on to its
\* return statement, the other writes return the response they hold
AfterInvalidate(p) ==
    IF req[p].op = "upsertClassifications"
      THEN Goto(p, "return", req[p])
      ELSE Finish(p, [Ok EXCEPT !.value = req[p].view])

\* TestsService.invalidateTestCache after a committed write
InvalidateTestCache(p) ==
    /\ pc[p] = "invalidate"
    /\ cache' = CacheDel(UNION {InvalidatedKeys(testId) : testId \in InvalidatedTests(p)})
    /\ AfterInvalidate(p)
    /\ UNCHANGED <<db, outbox, languages, translations, classifications, tests>>

\* getLanguages or a del throws inside invalidateTestCache: the keys deleted
\* before the failure stay deleted, the catch logs, the write goes on
InvalidateThrows(p) ==
    /\ pc[p] = "invalidate"
    /\ \E deleted \in SUBSET UNION {InvalidatedKeys(testId) : testId \in InvalidatedTests(p)} :
         cache' = CacheDel(deleted)
    /\ AfterInvalidate(p)
    /\ UNCHANGED <<db, outbox, languages, translations, classifications, tests>>

\* TestsService.upsertClassifications: return this.getClassifications(testId, 'fr')
UpsertClassificationsReturn(p) ==
    /\ pc[p] = "return" /\ req[p].op = "upsertClassifications"
    /\ Goto(p, "called", [req[p] EXCEPT !.op = "getClassifications",
                                        !.dto.languageCode = "fr"])
    /\ UNCHANGED <<db, outbox, content>>

\* TestsService.create: the checks before the insert
TestsCreateGuard(dto) ==
    LET tutorialTest == FindTest(dto.tutorialTestId) IN
    IF FindByCode(dto.code, dto.isTutorial) # {}
      THEN Result("Conflict", "A test with this code already exists")
    ELSE IF dto.tutorialTestId \notin {UNDEF, NULL} /\ tutorialTest = {}
      THEN Result("BadRequest", "Tutorial test not found")
    ELSE IF dto.tutorialTestId \notin {UNDEF, NULL}
            /\ ~(CHOOSE t \in tutorialTest : TRUE).isTutorial
      THEN Result("BadRequest", "Referenced test is not a tutorial test")
    ELSE IF InvalidLanguageCodes({t.languageCode : t \in Range(dto.translations)}) # {}
      THEN Result("BadRequest", "Invalid or inactive language codes")
    ELSE Ok

TestsCreateRead(p) ==
    LET guard == TestsCreateGuard(req[p].dto) IN
    /\ pc[p] = "called" /\ req[p].op = "tests.create"
    /\ UNCHANGED <<db, outbox, content>>
    /\ IF guard # Ok THEN Finish(p, guard) ELSE Goto(p, "insert", req[p])

\* The translation rows created with a test
CreatedTranslations(id, ts) ==
    {[TranslationRow("logicalTestTranslation", id, t.languageCode, t.text)
        EXCEPT !.description = IF t.description = UNDEF THEN NULL ELSE t.description]
       : t \in Range(ts)}

\* The language of the response of create and createTutorialTest
FirstLanguage(ts) == IF Len(ts) > 0 THEN ts[1].languageCode ELSE "fr"

\* TestsService.create: logicalTest.create with its translations; the index
\* on (code, isTutorial) and the foreign key of tutorialTestId reject the row
TestsCreateInsert(p) ==
    LET dto == req[p].dto
        tutorialTestId == IF dto.tutorialTestId = UNDEF THEN NULL ELSE dto.tutorialTestId
    IN
    /\ pc[p] = "insert" /\ req[p].op = "tests.create"
    /\ UNCHANGED <<db, outbox, languages, classifications, cache>>
    /\ IF \/ FindByCode(dto.code, dto.isTutorial) # {}
          \/ (tutorialTestId # NULL /\ FindTest(tutorialTestId) = {})
          \/ FreshTestIds = {}
         THEN /\ Finish(p, PersistenceError)
              /\ UNCHANGED <<tests, translations>>
         ELSE \E id \in FreshTestIds :
                LET test == [LogicalTest(id, dto.code) EXCEPT
                               !.isTutorial = dto.isTutorial,
                               !.tutorialTestId = tutorialTestId,
                               !.isActive = IF dto.isActive = {} THEN TRUE
                                            ELSE CHOOSE a \in dto.isActive : TRUE]
                IN
                /\ tests' = tests \cup {test}
                /\ translations' = translations \cup CreatedTranslations(id, dto.translations)
                /\ \E view \in MapTestRow(test, CreatedTranslations(id, dto.translations),
                                             {{}}, FirstLanguage(dto.translations)) :
                     Finish(p, [Ok EXCEPT !.value = view])

\* TestsService.update: the checks before the write
TestsUpdateGuard(id, dto) ==
    LET tutorialTest == FindTest(dto.tutorialTestId) IN
    IF FindTest(id) = {}
      THEN Result("NotFound", "Test not found")
    ELSE IF dto.tutorialTestId \notin {UNDEF, NULL} /\ tutorialTest = {}
      THEN Result("BadRequest", "Tutorial test not found")
    ELSE IF dto.tutorialTestId \notin {UNDEF, NULL}
            /\ ~(CHOOSE t \in tutorialTest : TRUE).isTutorial
      THEN Result("BadRequest", "Referenced test is not a tutorial test")
    ELSE IF dto.tutorialTestId \notin {UNDEF, NULL} /\ dto.tutorialTestId = id
      THEN Result("BadRequest", "A test cannot reference itself as its tutorial")
    ELSE Ok

TestsUpdateRead(p) ==
    LET guard == TestsUpdateGuard(req[p].dto.parentId, req[p].dto) IN
    /\ pc[p] = "called" /\ req[p].op = "tests.update"
    /\ UNCHANGED <<db, outbox, content>>
    /\ IF guard # Ok THEN Finish(p, guard) ELSE Goto(p, "update", req[p])

\* A row of logical_tests is replaced
StoreTest(old, new) == (tests \ {old}) \cup {new}

\* TestsService.update: logicalTest.update with the fields dto carries; the
\* response is mapped from the row the statement returns
TestsUpdateWrite(p) ==
    LET dto == req[p].dto
        existing == FindTest(dto.parentId)
    IN
    /\ pc[p] = "update" /\ req[p].op = "tests.update"
    /\ UNCHANGED <<db, outbox, languages, translations, classifications, cache>>
    /\ IF \/ existing = {}
          \/ (dto.tutorialTestId \notin {UNDEF, NULL} /\ FindTest(dto.tutorialTestId) = {})
         THEN /\ Finish(p, PersistenceError)
              /\ UNCHANGED tests
         ELSE LET old == CHOOSE t \in existing : TRUE
                  test == [old EXCEPT
                             !.isActive = IF dto.isActive = {} THEN @
                                          ELSE CHOOSE a \in dto.isActive : TRUE,
                             !.tutorialTestId = IF dto.tutorialTestId = UNDEF THEN @
                                                ELSE dto.tutorialTestId]
              IN
              /\ tests' = StoreTest(old, test)
              /\ \E view \in MapTestResponse(test, "fr") :
                   Goto(p, "invalidate", [req[p] EXCEPT !.view = view])

\* TestsService.toggleActive: the read
ToggleActiveRead(p) ==
    LET test == FindTest(req[p].dto.parentId) IN
    /\ pc[p] = "called" /\ req[p].op = "toggleActive"
    /\ UNCHANGED <<db, outbox, content>>
    /\ IF test = {} THEN Finish(p, Result("NotFound", "Test not found"))
       ELSE Goto(p, "update", [req[p] EXCEPT !.test = test])

\* TestsService.toggleActive: update with the negation of the flag that was read
ToggleActiveWrite(p) ==
    LET existing == FindTest(req[p].dto.parentId) IN
    /\ pc[p] = "update" /\ req[p].op = "toggleActive"
    /\ UNCHANGED <<db, outbox, languages, translations, classifications, cache>>
    /\ IF existing = {}
         THEN /\ Finish(p, PersistenceError)
              /\ UNCHANGED tests
         ELSE LET old == CHOOSE t \in existing : TRUE
                  updated == [old EXCEPT
                                !.isActive = ~(CHOOSE t \in req[p].test : TRUE).isActive]
              IN
              /\ tests' = StoreTest(old, updated)
              /\ \E view \in MapTestResponse(updated, "fr") :
                   Goto(p, "invalidate", [req[p] EXCEPT !.view = view])

\* TestsService.remove: the checks before the delete
RemoveRead(p) ==
    /\ pc[p] = "called" /\ req[p].op = "remove"
    /\ UNCHANGED <<db, outbox, content>>
    /\ IF FindTest(req[p].dto.parentId) = {}
         THEN Finish(p, Result("NotFound", "Test not found"))
       ELSE IF req[p].dto.parentId \in AttemptedTests
         THEN Finish(p, Result("BadRequest", "Cannot delete test: it has attempts"))
       ELSE Goto(p, "delete", req[p])

\* TestsService.remove: logicalTest.delete; translations and classifications
\* go in cascade, logical_tests_tutorial_test_id_fkey sets references to null
RemoveWrite(p) ==
    LET id == req[p].dto.parentId IN
    /\ pc[p] = "delete" /\ req[p].op = "remove"
    /\ UNCHANGED <<db, outbox, languages, cache>>
    /\ IF FindTest(id) = {}
         THEN /\ Finish(p, PersistenceError)
              /\ UNCHANGED <<tests, translations, classifications>>
         ELSE /\ tests' = {IF t.tutorialTestId = id THEN [t EXCEPT !.tutorialTestId = NULL]
                           ELSE t : t \in tests \ FindTest(id)}
              /\ translations' =
                   translations \ TranslationsOfParent("logicalTestTranslation", id)
              /\ classifications' = classifications \ ClassificationsOf(id)
              /\ Goto(p, "invalidate", [req[p] EXCEPT !.view = [deleted |-> TRUE]])

\* TestsService.createTutorialTest: the checks before the transaction
CreateTutorialTestGuard(mainTestId, dto) ==
    LET mainTest == FindTest(mainTestId) IN
    IF mainTest = {}
      THEN Result("NotFound", "Test not found")
    ELSE IF (CHOOSE t \in mainTest : TRUE).isTutorial
      THEN Result("BadRequest", "Cannot create a tutorial test from another tutorial test")
    ELSE IF (CHOOSE t \in mainTest : TRUE).tutorialTestId # NULL
      THEN Result("Conflict", "Tutorial test already exists for main test")
    ELSE IF FindByCode((CHOOSE t \in mainTest : TRUE).code, TRUE) # {}
      THEN Result("Conflict", "Tutorial test already exists for code")
    ELSE IF InvalidLanguageCodes({t.languageCode : t \in Range(dto.translations)}) # {}
      THEN Result("BadRequest", "Invalid or inactive language codes")
    ELSE Ok

CreateTutorialTestRead(p) ==
    LET guard == CreateTutorialTestGuard(req[p].dto.parentId, req[p].dto) IN
    /\ pc[p] = "called" /\ req[p].op = "createTutorialTest"
    /\ UNCHANGED <<db, outbox, content>>
    /\ IF guard # Ok THEN Finish(p, guard)
       ELSE Goto(p, "tx", [req[p] EXCEPT !.test = FindTest(req[p].dto.parentId)])

\* TestsService.createTutorialTest: $transaction(create the tutorial with the
\* code of the main test that was read, connect the main test to it)
CreateTutorialTestTx(p) ==
    LET dto == req[p].dto
        mainTest == CHOOSE t \in req[p].test : TRUE
        existing == FindTest(dto.parentId)
    IN
    /\ pc[p] = "tx" /\ req[p].op = "createTutorialTest"
    /\ UNCHANGED <<db, outbox, languages, classifications, cache>>
    /\ IF existing = {} \/ FindByCode(mainTest.code, TRUE) # {} \/ FreshTestIds = {}
         THEN /\ Finish(p, PersistenceError)
              /\ UNCHANGED <<tests, translations>>
         ELSE \E id \in FreshTestIds :
                LET old == CHOOSE t \in existing : TRUE
                    tutorial == [LogicalTest(id, mainTest.code) EXCEPT
                                   !.isTutorial = TRUE,
                                   !.isActive = IF dto.isActive = {} THEN TRUE
                                                ELSE CHOOSE a \in dto.isActive : TRUE]
                IN
                /\ tests' = StoreTest(old, [old EXCEPT !.tutorialTestId = id])
                              \cup {tutorial}
                /\ translations' = translations \cup CreatedTranslations(id, dto.translations)
                /\ \E view \in MapTestRow(tutorial, CreatedTranslations(id, dto.translations),
                                             {{}}, FirstLanguage(dto.translations)) :
                     Goto(p, "invalidate", [req[p] EXCEPT !.test = {tutorial}, !.view = view])

(***************************************************************************)
(* Callers, inputs and specifications                                      *)
(***************************************************************************)

Callers == {"c1", "c2"}
OneCaller == {"c1"}

\* The logical-tests tables are empty
NoContent ==
    /\ languages = {}
    /\ translations = {}
    /\ classifications = {}
    /\ tests = {}
    /\ cache = NoCache

Request(op, id, dto) == [op |-> op, id |-> id, dto |-> dto]

Invoke(p, requests) ==
    /\ pc[p] = "idle"
    /\ \E r \in requests : Call(p, r.op, r.id, r.dto)

EmptyStore(callers) ==
    /\ jobApplications = <<>>
    /\ candidatures = <<>>
    /\ transitions = <<>>
    /\ users = {}
    /\ outbox = {}
    /\ NoContent
    /\ pc = [p \in callers |-> "idle"]
    /\ req = [p \in callers |-> NoReq]
    /\ res = [p \in callers |-> Pending]

\* The steps of the job application and candidature creation methods
SpawnStep(p) ==
    \/ JobApplicationCreateRead(p)
    \/ JobApplicationCreateInsert(p)
    \/ ReviewRead(p)
    \/ ReviewTx(p)
    \/ WithdrawRead(p)
    \/ WithdrawUpdate(p)
    \/ CreateRead(p)
    \/ CreateInsert(p)
    \/ CreateLog(p)
    \/ CreateManualRead(p)
    \/ CreateManualTx(p)
    \/ CreateLegacyRead(p)
    \/ CreateLegacyTx(p)
    \/ CreateLegacyNotify(p)
    \/ Fail(p)

\* Inputs of two concurrent callers of the creation methods
SpawnIds == {1}
SpawnRequests ==
    {Request("jobApplication.create", 0, [NoDto EXCEPT !.site = "s1"])}
    \cup {Request("review", id, [NoDto EXCEPT !.decision = "approved"]) : id \in SpawnIds}
    \cup {Request("review", id, [NoDto EXCEPT !.decision = "rejected", !.reason = "filled"])
            : id \in SpawnIds}
    \cup {Request("withdraw", id, [NoDto EXCEPT !.by = Candidate]) : id \in SpawnIds}
    \cup {Request("create", id, [NoDto EXCEPT !.psy = y])
            : id \in SpawnIds, y \in {UNDEF, "psy1"}}
    \cup {Request("createManual", 0, [NoDto EXCEPT !.site = "s1", !.psy = y])
            : y \in {UNDEF, "psy1"}}
    \cup {Request("createLegacy", 0, [NoDto EXCEPT !.site = "s1", !.email = "walkin@x"])}

\* A store holding one job application of the candidate and no candidature yet:
\* the application is pending, or was approved and awaits CandidaturesService.create
ApplicationStore(callers) ==
    /\ \E st \in {"pending", "approved"} :
          jobApplications =
              <<NewApplication(Candidate, st, IF st = "pending" THEN NULL ELSE Actor)>>
    /\ candidatures = <<>>
    /\ transitions = <<>>
    /\ users = {}
    /\ outbox = {}
    /\ NoContent
    /\ pc = [p \in callers |-> "idle"]
    /\ req = [p \in callers |-> NoReq]
    /\ res = [p \in callers |-> Pending]

\* Two callers of the job application and candidature creation methods
Init == ApplicationStore(Callers)
Next == \E p \in Callers : Invoke(p, SpawnRequests) \/ SpawnStep(p)
Spec == Init /\ [][Next]_vars

\* The steps of the update and transition methods
LifeStep(p) ==
    \/ UpdateRead(p)
    \/ UpdateWrite(p)
    \/ AssignPsychologueRead(p)
    \/ AssignPsychologueTx(p)
    \/ AssignTestsRead(p)
    \/ AssignTestsTx(p)
    \/ MakeDecisionRead(p)
    \/ MakeDecisionTx(p)
    \/ ArchiveRead(p)
    \/ ArchiveTx(p)
    \/ UpdateStatusRead(p)
    \/ UpdateStatusTx(p)
    \/ Fail(p)

\* The store after JobApplicationsService.review approved one application
ReviewedStore(callers) ==
    /\ jobApplications = <<NewApplication(Candidate, "approved", Actor)>>
    /\ candidatures = <<ReviewCandidature(1)>>
    /\ transitions = <<>>
    /\ users = {}
    /\ outbox = {}
    /\ NoContent
    /\ pc = [p \in callers |-> "idle"]
    /\ req = [p \in callers |-> NoReq]
    /\ res = [p \in callers |-> Pending]

\* Inputs of one caller of the update and transition methods; candidature 2 does not exist
LifeIds == {1, 2}
LifeRequests ==
    {Request("update", id, [NoDto EXCEPT !.psy = y])
        : id \in LifeIds, y \in {NULL, "psy1", "nobody"}}
    \cup {Request("assignPsychologue", id, [NoDto EXCEPT !.psy = y])
            : id \in LifeIds, y \in {"psy1", "nobody"}}
    \cup {Request("assignTests", id,
                  [NoDto EXCEPT !.logicalTestId = t, !.optionalLogicalTestId = o])
            : id \in LifeIds, t \in {"t1", "t0"}, o \in {UNDEF, "t0"}}
    \cup {Request("makeDecision", id, [NoDto EXCEPT !.decision = "favorable"])
            : id \in LifeIds}
    \cup {Request("archive", id, NoDto) : id \in LifeIds}
    \cup {Request("updateStatus", id, [NoDto EXCEPT !.newStatus = st])
            : id \in LifeIds, st \in CandidatureStatus}

\* One caller drives a candidature through its lifecycle
InitLife == ReviewedStore(OneCaller)
NextLife == \E p \in OneCaller : Invoke(p, LifeRequests) \/ LifeStep(p)
SpecLife == InitLife /\ [][NextLife]_vars

\* Inputs of two concurrent callers of the transition methods
RaceRequests ==
    {Request("assignPsychologue", 1, [NoDto EXCEPT !.psy = "psy1"]),
     Request("assignTests", 1, [NoDto EXCEPT !.logicalTestId = "t1"]),
     Request("makeDecision", 1, [NoDto EXCEPT !.decision = "favorable"]),
     Request("archive", 1, NoDto),
     Request("update", 1, [NoDto EXCEPT !.psy = NULL])}
    \cup {Request("updateStatus", 1, [NoDto EXCEPT !.newStatus = st])
            : st \in {"completed", "evaluated"}}

\* Two callers act on the same candidature
InitRace == ReviewedStore(Callers)
NextRace == \E p \in Callers : Invoke(p, RaceRequests) \/ LifeStep(p)
SpecRace == InitRace /\ [][NextRace]_vars

\* Inputs of one caller assigning tests, a psychologue and an exam date
TestsRequests ==
    {Request("assignTests", 1,
             [NoDto EXCEPT !.logicalTestId = t, !.optionalLogicalTestId = o,
                           !.includePersonalityTest = i, !.examDate = d])
        : t \in {"t1", "t0"}, o \in {UNDEF, "t2"}, i \in BOOLEAN, d \in {UNDEF, "d1"}}
    \cup {Request("update", 1, [NoDto EXCEPT !.examDate = "d2"]),
          Request("assignPsychologue", 1, [NoDto EXCEPT !.psy = "psy1"])}

\* The steps of assignTests and of the methods that change what it reads
TestsStep(p) ==
    \/ UpdateRead(p)
    \/ UpdateWrite(p)
    \/ AssignPsychologueRead(p)
    \/ AssignPsychologueTx(p)
    \/ AssignTestsRead(p)
    \/ AssignTestsTx(p)
    \/ Fail(p)

\* One caller assigns tests to a pending candidature, repeatedly
InitTests == ReviewedStore(OneCaller)
NextTests == \E p \in OneCaller : Invoke(p, TestsRequests) \/ TestsStep(p)
SpecTests == InitTests /\ [][NextTests]_vars

\* Two callers assign tests to a candidature while its exam date is updated
AssignRequests ==
    {Request("assignTests", 1,
             [NoDto EXCEPT !.logicalTestId = "t1", !.optionalLogicalTestId = o,
                           !.includePersonalityTest = i, !.examDate = d])
        : o \in {UNDEF, "t2"}, i \in BOOLEAN, d \in {UNDEF, "d1"}}
    \cup {Request("update", 1, [NoDto EXCEPT !.examDate = "d2"])}

AssignStep(p) ==
    \/ UpdateRead(p)
    \/ UpdateWrite(p)
    \/ AssignTestsRead(p)
    \/ AssignTestsTx(p)
    \/ Fail(p)

InitAssign == ReviewedStore(Callers)
NextAssign == \E p \in Callers : Invoke(p, AssignRequests) \/ AssignStep(p)
SpecAssign == InitAssign /\ [][NextAssign]_vars

\* The registry as seeded: French is the default language, English is active
SeededLanguages == {Language("fr", TRUE, TRUE), Language("en", TRUE, FALSE)}

\* A store of the logical-tests module with one test and one question, each
\* translated into the default language only; no candidature data
TranslatedStore(callers) ==
    /\ jobApplications = <<>>
    /\ candidatures = <<>>
    /\ transitions = <<>>
    /\ users = {}
    /\ outbox = {}
    /\ languages = SeededLanguages
    /\ translations = {TranslationRow("logicalTestTranslation", "test1", "fr", "a"),
                       TranslationRow("logicalQuestionTranslation", "q1", "fr", "a")}
    /\ classifications = {}
    /\ tests = SeededTests
    /\ cache = NoCache
    /\ pc = [p \in callers |-> "idle"]
    /\ req = [p \in callers |-> NoReq]
    /\ res = [p \in callers |-> Pending]

\* Inputs of two concurrent callers of the registry and translation writes
TranslateRequests ==
    {Request("upsertLanguage", 0, [NoDto EXCEPT !.languageCode = c]) : c \in {"en", "de"}}
    \cup {Request("toggleLanguageActive", 0, [NoDto EXCEPT !.languageCode = c])
            : c \in {"fr", "en", "xx"}}
    \cup {Request("upsertTestTranslations", 0,
                  [NoDto EXCEPT !.parentId = "test1", !.translations = ts])
            : ts \in {<<TranslationDto("en", "a", UNDEF)>>,
                      <<TranslationDto("de", "a", UNDEF)>>}}
    \cup {Request("upsertQuestionTranslations", 0,
                  [NoDto EXCEPT !.parentId = "q1",
                                !.translations = <<TranslationDto("en", "a", UNDEF)>>])}
    \cup {Request("deleteTestTranslation", 0,
                  [NoDto EXCEPT !.parentId = "test1", !.languageCode = c])
            : c \in {"fr", "en"}}
    \cup {Request("deleteQuestionTranslation", 0,
                  [NoDto EXCEPT !.parentId = "q1", !.languageCode = c])
            : c \in {"fr", "en"}}

\* The steps of the registry and translation write methods
TranslateStep(p) ==
    \/ UpsertLanguage(p)
    \/ ToggleLanguageActiveRead(p)
    \/ ToggleLanguageActiveUpdate(p)
    \/ UpsertTranslationsRead(p)
    \/ UpsertTranslationsTx(p)
    \/ DeleteTranslationRead(p)
    \/ DeleteTranslationWrite(p)
    \/ Fail(p)

\* Two callers maintain the registry and the translations of a test and a question
InitTranslate == TranslatedStore(Callers)
NextTranslate == \E p \in Callers : Invoke(p, TranslateRequests) \/ TranslateStep(p)
SpecTranslate == InitTranslate /\ [][NextTranslate]_vars

\* Registries with French or English as the default language; the other of
\* the two is registered, active or not, and Arabic may be registered too
Registries ==
    {{Language(d, TRUE, TRUE)}
       \cup {Language(c, a, FALSE) : c \in {"fr", "en"} \ {d}}
       \cup extra
       : d \in {"fr", "en"}, a \in BOOLEAN,
         extra \in {{}, {Language("ar", TRUE, FALSE)}}}

\* The translations of one parent in the languages of langs
RowsIn(model, parentId, langs) ==
    {TranslationRow(model, parentId, l, "a") : l \in langs}

\* Translation tables of one test and two questions
TranslationTables ==
    {RowsIn("logicalTestTranslation", "test1", l1)
       \cup RowsIn("logicalQuestionTranslation", "q1", l2)
       \cup RowsIn("logicalQuestionTranslation", "q2", l3)
       : l1 \in SUBSET {"fr", "en", "ar"}, l2 \in SUBSET {"fr", "en"},
         l3 \in SUBSET {"fr", "en"}}

\* Requested languages: registered or not, active or not
ResolveRequests ==
    {Request("getTestTranslation", 0,
             [NoDto EXCEPT !.parentId = "test1", !.languageCode = l])
       : l \in {"fr", "en", "ar", "xx"}}
    \cup {Request("getQuestionTranslation", 0,
                  [NoDto EXCEPT !.parentId = "q1", !.languageCode = l])
            : l \in {"fr", "en"}}
    \cup {Request("getQuestionTranslationsBatch", 0,
                  [NoDto EXCEPT !.parentIds = <<"q1", "q2">>, !.languageCode = l])
            : l \in {"fr", "en", "xx"}}

\* One caller reads localized content from any registry and any translation
\* tables whose rows are in registered languages
InitResolve ==
    /\ jobApplications = <<>>
    /\ candidatures = <<>>
    /\ transitions = <<>>
    /\ users = {}
    /\ outbox = {}
    /\ languages \in Registries
    /\ translations \in TranslationTables
    /\ \A t \in translations : FindLanguage(t.languageCode) # {}
    /\ classifications = {}
    /\ tests = SeededTests
    /\ cache = NoCache
    /\ pc = [p \in OneCaller |-> "idle"]
    /\ req = [p \in OneCaller |-> NoReq]
    /\ res = [p \in OneCaller |-> Pending]

NextResolve ==
    \E p \in OneCaller :
        \/ Invoke(p, ResolveRequests)
        \/ GetTranslationCall(p)
        \/ GetTranslationsBatchCall(p)

SpecResolve == InitResolve /\ [][NextResolve]_vars

\* Display orders of classification inputs, and the length of an input
Orders == {1, 2, 3}
MaxItems == Cardinality(Orders)

French == <<[languageCode |-> "fr", label |-> "a"]>>

\* Items with any display order and any two scores, labelled in French
ScoreItems ==
    {Item(d, lo, hi, French) : d \in Orders, lo \in 0..MaxScore, hi \in 0..MaxScore}

\* Arrays of one to MaxItems items
RECURSIVE ItemArrays(_)
ItemArrays(n) ==
    IF n = 0 THEN {<<>>}
    ELSE LET shorter == ItemArrays(n - 1) IN
         shorter \cup {Append(a, i) : a \in {b \in shorter : Len(b) = n - 1}, i \in ScoreItems}

\* One valid item in each combination of languages: active, inactive,
\* unregistered, repeated
LanguageItems ==
    {<<Item(1, 0, 1, ts)>> :
       ts \in {<<[languageCode |-> "en", label |-> "b"]>>,
               <<[languageCode |-> "fr", label |-> "a"], [languageCode |-> "en", label |-> "b"]>>,
               <<[languageCode |-> "de", label |-> "a"]>>,
               <<[languageCode |-> "fr", label |-> "a"], [languageCode |-> "xx", label |-> "a"]>>,
               <<[languageCode |-> "fr", label |-> "a"], [languageCode |-> "fr", label |-> "b"]>>}}

ClassRequests ==
    {Request("upsertClassifications", 0, [NoDto EXCEPT !.parentId = "test1", !.items = a])
       : a \in (ItemArrays(MaxItems) \ {<<>>}) \cup LanguageItems}
    \cup {Request("upsertClassifications", 0,
                  [NoDto EXCEPT !.parentId = "test0", !.items = <<Item(1, 0, 1, French)>>])}

\* The classification sets stored before the call: none for test1, or two
\* adjacent ranges; test2 has one classification of its own
PriorClassifications ==
    {{ClassificationRow("test2", Item(1, 0, 1, French))} \cup prior
       : prior \in {{}, {ClassificationRow("test1", Item(1, 0, 0, French)),
                         ClassificationRow("test1", Item(2, 1, 2, French))}}}

\* One caller replaces the classification set of a test, once
InitClass ==
    /\ jobApplications = <<>>
    /\ candidatures = <<>>
    /\ transitions = <<>>
    /\ users = {}
    /\ outbox = {}
    /\ languages = SeededLanguages \cup {Language("de", FALSE, FALSE)}
    /\ translations = {}
    /\ classifications \in PriorClassifications
    /\ tests = SeededTests
    /\ cache = NoCache
    /\ pc = [p \in OneCaller |-> "idle"]
    /\ req = [p \in OneCaller |-> NoReq]
    /\ res = [p \in OneCaller |-> Pending]

\* The caller makes its one call: the transaction replaces the whole set of
\* the test, so what a call stores does not depend on the calls before it
InvokeOnce(p, requests) == res[p] = Pending /\ Invoke(p, requests)

NextClass ==
    \E p \in OneCaller :
        \/ InvokeOnce(p, ClassRequests)
        \/ UpsertClassificationsRead(p)
        \/ UpsertClassificationsTx(p)
        \/ InvalidateTestCache(p)
        \/ UpsertClassificationsReturn(p)
        \/ GetClassificationsCacheGet(p)
        \/ GetClassificationsRead(p)
        \/ GetClassificationsCacheSet(p)
        \/ Fail(p)

SpecClass == InitClass /\ [][NextClass]_vars

\* Inputs of createLegacy: two emails, a known and an unknown site, with and
\* without a technical interview, credentials by email or in the result
LegacyRequests ==
    {Request("createLegacy", 0,
             [NoDto EXCEPT !.site = st, !.email = e, !.interview = i, !.sendCredentials = sc])
       : st \in {"s1", "s0"}, e \in {"a@x", "b@x"}, i \in BOOLEAN, sc \in BOOLEAN}

LegacyStep(p) ==
    \/ CreateLegacyRead(p)
    \/ CreateLegacyTx(p)
    \/ CreateLegacyNotify(p)
    \/ Fail(p)

\* Two callers register walk-in candidates on an empty store
InitLegacy == EmptyStore(Callers)
NextLegacy == \E p \in Callers : Invoke(p, LegacyRequests) \/ LegacyStep(p)
SpecLegacy == InitLegacy /\ [][NextLegacy]_vars

\* The steps of the two services on a store they filled themselves; the
\* insert and log steps of CandidaturesService.create are not listed, as its
\* read never hands over to them from such a store (C26)
FreshStep(p) ==
    \/ JobApplicationCreateRead(p)
    \/ JobApplicationCreateInsert(p)
    \/ ReviewRead(p)
    \/ ReviewTx(p)
    \/ WithdrawRead(p)
    \/ WithdrawUpdate(p)
    \/ CreateRead(p)
    \/ CreateManualRead(p)
    \/ CreateManualTx(p)
    \/ CreateLegacyRead(p)
    \/ CreateLegacyTx(p)
    \/ CreateLegacyNotify(p)
    \/ Fail(p)

\* Two callers of the two services on an empty store
InitFresh == EmptyStore(Callers)
NextFresh == \E p \in Callers : Invoke(p, SpawnRequests) \/ FreshStep(p)
SpecFresh == InitFresh /\ [][NextFresh]_vars

\* Translations of a test as a caller can supply them: two texts, with or
\* without a description, in an active, an inactive or an unknown language
SuppliedTranslations ==
    {TranslationDto(l, t, d) : l \in {"fr", "en", "xx"}, t \in {"a", "b"}, d \in {UNDEF, "d1"}}

RoundTripRequests ==
    {Request("upsertTestTranslations", 0,
             [NoDto EXCEPT !.parentId = "test1", !.translations = ts])
       : ts \in {<<t>> : t \in SuppliedTranslations}
                \cup {<<t, u>> : t, u \in SuppliedTranslations}}
    \cup {Request("getTestTranslations", 0, [NoDto EXCEPT !.parentId = "test1"])}

\* One caller writes the translations of a test and reads them back; the test
\* starts with a French translation that has a description
InitRoundTrip ==
    /\ jobApplications = <<>>
    /\ candidatures = <<>>
    /\ transitions = <<>>
    /\ users = {}
    /\ outbox = {}
    /\ languages = SeededLanguages
    /\ translations = {[TranslationRow("logicalTestTranslation", "test1", "fr", "a")
                          EXCEPT !.description = "d0"]}
    /\ classifications = {}
    /\ tests = SeededTests
    /\ cache = NoCache
    /\ pc = [p \in OneCaller |-> "idle"]
    /\ req = [p \in OneCaller |-> NoReq]
    /\ res = [p \in OneCaller |-> Pending]

NextRoundTrip ==
    \E p \in OneCaller :
        \/ Invoke(p, RoundTripRequests)
        \/ UpsertTranslationsRead(p)
        \/ UpsertTranslationsTx(p)
        \/ GetTranslationsCall(p)
        \/ Fail(p)

SpecRoundTrip == InitRoundTrip /\ [][NextRoundTrip]_vars

\* One French translation, as CreateTestDto requires at least one
FrenchName == <<TranslationDto("fr", "a", UNDEF)>>

\* Inputs of create, update and createTutorialTest over the catalogue: a code
\* in use and a free one, main and tutorial tests, references to a main test,
\* to a tutorial test and to none
TutorialRequests ==
    {Request("tests.create", 0,
             [NoDto EXCEPT !.code = c, !.isTutorial = t, !.tutorialTestId = r,
                           !.translations = FrenchName])
       : c \in {"D_70", "LOGIQUE_PROPOSITIONS"}, t \in BOOLEAN,
         r \in {UNDEF, "test1", "test3"}}
    \cup {Request("tests.update", 0,
                  [NoDto EXCEPT !.parentId = id, !.tutorialTestId = r, !.isActive = a])
            : id \in {"test1", "test3", "test9"}, r \in {UNDEF, NULL, "test1", "test3"},
              a \in {{}, {FALSE}}}
    \cup {Request("createTutorialTest", 0,
                  [NoDto EXCEPT !.parentId = id, !.translations = FrenchName])
            : id \in {"test1", "test2", "test3", "test9"}}

\* The catalogue holds the main test of D_70 and the main test of D_2000
\* with its tutorial test
LinkedTests ==
    {LogicalTest("test1", "D_70"),
     [LogicalTest("test2", "D_2000") EXCEPT !.tutorialTestId = "test3"],
     [LogicalTest("test3", "D_2000") EXCEPT !.isTutorial = TRUE]}

InitTutorial ==
    /\ jobApplications = <<>>
    /\ candidatures = <<>>
    /\ transitions = <<>>
    /\ users = {}
    /\ outbox = {}
    /\ languages = SeededLanguages
    /\ translations = {}
    /\ classifications = {}
    /\ tests = LinkedTests
    /\ cache = NoCache
    /\ pc = [p \in OneCaller |-> "idle"]
    /\ req = [p \in OneCaller |-> NoReq]
    /\ res = [p \in OneCaller |-> Pending]

NextTutorial ==
    \E p \in OneCaller :
        \/ Invoke(p, TutorialRequests)
        \/ TestsCreateRead(p)
        \/ TestsCreateInsert(p)
        \/ TestsUpdateRead(p)
        \/ TestsUpdateWrite(p)
        \/ CreateTutorialTestRead(p)
        \/ CreateTutorialTestTx(p)
        \/ InvalidateTestCache(p)
        \/ Fail(p)

SpecTutorial == InitTutorial /\ [][NextTutorial]_vars

\* The reads of a test: in a registered language and in a code that is not
\* in the registry
ReadRequests ==
    {Request(op, 0, [NoDto EXCEPT !.parentId = "test1", !.languageCode = l])
       : op \in {"findOne", "getClassifications"}, l \in {"fr", "xx"}}

\* The writes of TestsService to a test
WriteRequests ==
    {Request("tests.update", 0, [NoDto EXCEPT !.parentId = "test1", !.isActive = {FALSE}]),
     Request("toggleActive", 0, [NoDto EXCEPT !.parentId = "test1"]),
     Request("remove", 0, [NoDto EXCEPT !.parentId = "test1"]),
     Request("upsertClassifications", 0,
             [NoDto EXCEPT !.parentId = "test1", !.items = <<Item(1, 0, 1, French)>>])}

\* The writes to the translations of a test, and the creation of its tutorial
TranslationWriteRequests ==
    {Request("createTutorialTest", 0,
             [NoDto EXCEPT !.parentId = "test1", !.translations = FrenchName]),
     Request("upsertTestTranslations", 0,
             [NoDto EXCEPT !.parentId = "test1",
                           !.translations = <<TranslationDto("fr", "b", UNDEF)>>]),
     Request("deleteTestTranslation", 0,
             [NoDto EXCEPT !.parentId = "test1", !.languageCode = "en"])}

\* The steps of findOne and getClassifications with a cache that answers
ReadThroughStep(p) ==
    \/ FindOneCacheGet(p)
    \/ FindOneRead(p)
    \/ FindOneCacheSet(p)
    \/ GetClassificationsCacheGet(p)
    \/ GetClassificationsRead(p)
    \/ GetClassificationsCacheSet(p)

\* The steps of update, toggleActive, remove and upsertClassifications up to
\* the invalidation of the cache
TestWriteStep(p) ==
    \/ TestsUpdateRead(p)
    \/ TestsUpdateWrite(p)
    \/ ToggleActiveRead(p)
    \/ ToggleActiveWrite(p)
    \/ RemoveRead(p)
    \/ RemoveWrite(p)
    \/ UpsertClassificationsRead(p)
    \/ UpsertClassificationsTx(p)
    \/ UpsertClassificationsReturn(p)

\* One test with a French and an English name, no classification, nothing cached
CachedCatalogue(callers) ==
    /\ jobApplications = <<>>
    /\ candidatures = <<>>
    /\ transitions = <<>>
    /\ users = {}
    /\ outbox = {}
    /\ languages = SeededLanguages
    /\ translations = {TranslationRow("logicalTestTranslation", "test1", l, "a")
                         : l \in {"fr", "en"}}
    /\ classifications = {}
    /\ tests = {LogicalTest("test1", "D_70")}
    /\ cache = NoCache
    /\ pc = [p \in callers |-> "idle"]
    /\ req = [p \in callers |-> NoReq]
    /\ res = [p \in callers |-> Pending]

\* One caller reads and writes a test through a cache that never fails
InitCache == CachedCatalogue(OneCaller)

NextCache ==
    \/ CacheExpire
    \/ \E p \in OneCaller :
         \/ Invoke(p, ReadRequests \cup WriteRequests \cup TranslationWriteRequests)
         \/ ReadThroughStep(p)
         \/ TestWriteStep(p)
         \/ InvalidateTestCache(p)
         \/ CreateTutorialTestRead(p)
         \/ CreateTutorialTestTx(p)
         \/ UpsertTranslationsRead(p)
         \/ UpsertTranslationsTx(p)
         \/ DeleteTranslationRead(p)
         \/ DeleteTranslationWrite(p)
         \/ Fail(p)

SpecCache == InitCache /\ [][NextCache]_vars

\* findOne in a registered language, and the writes that invalidate its key
ReadRaceRequests ==
    {Request("findOne", 0, [NoDto EXCEPT !.parentId = "test1", !.languageCode = "fr"]),
     Request("tests.update", 0, [NoDto EXCEPT !.parentId = "test1", !.isActive = {FALSE}]),
     Request("toggleActive", 0, [NoDto EXCEPT !.parentId = "test1"]),
     Request("upsertClassifications", 0,
             [NoDto EXCEPT !.parentId = "test1", !.items = <<Item(1, 0, 1, French)>>])}

\* Two callers: the steps of a read-through findOne interleave with the
\* steps of a write and its invalidation
InitReadRace == CachedCatalogue(Callers)

NextReadRace ==
    \E p \in Callers :
        \/ Invoke(p, ReadRaceRequests)
        \/ FindOneCacheGet(p)
        \/ FindOneRead(p)
        \/ FindOneCacheSet(p)
        \/ TestsUpdateRead(p)
        \/ TestsUpdateWrite(p)
        \/ ToggleActiveRead(p)
        \/ ToggleActiveWrite(p)
        \/ UpsertClassificationsRead(p)
        \/ UpsertClassificationsTx(p)
        \/ UpsertClassificationsReturn(p)
        \/ GetClassificationsCacheGet(p)
        \/ GetClassificationsRead(p)
        \/ GetClassificationsCacheSet(p)
        \/ InvalidateTestCache(p)
        \/ Fail(p)

SpecReadRace == InitReadRace /\ [][NextReadRace]_vars

\* One caller reads and writes a test through a cache where any get, set
\* or del may throw
InitFaulty == CachedCatalogue(OneCaller)

NextFaulty ==
    \E p \in OneCaller :
        \/ Invoke(p, ReadRequests \cup WriteRequests)
        \/ ReadThroughStep(p)
        \/ TestWriteStep(p)
        \/ InvalidateTestCache(p)
        \/ CacheGetThrows(p)
        \/ CacheSetThrows(p)
        \/ InvalidateThrows(p)
        \/ Fail(p)

SpecFaulty == InitFaulty /\ [][NextFaulty]_vars

(***************************************************************************)
(* Properties                                                              *)
(***************************************************************************)

\* The log entries of one candidature in a given log, oldest first
EntriesOf(log, cid) == SelectSeq(log, LAMBDA t : t.candidatureId = cid)

\* The status of candidature c before a step: a row inserted by the step
\* starts from the initial status pending
StatusBefore(c) ==
    IF c <= Len(candidatures) THEN candidatures[c].status ELSE "pending"

\* The step stores a new status for c / appends a log entry for c
StatusChanged(c) == candidatures'[c].status # StatusBefore(c)
LogAppended(c) == Len(EntriesOf(transitions', c)) > Len(EntriesOf(transitions, c))
AppendedEntry(c) == EntriesOf(transitions', c)[Len(EntriesOf(transitions', c))]

\* C1: every persistence step that stores a non-initial or changed status
\* appends the matching TransitionLog entry in the same step, and every step
\* that appends a log entry stores its toStatus: status and log move together.
C1_StatusAndLogAtomic ==
    [][\A c \in 1..Len(candidatures') :
          /\ StatusChanged(c) =>
                /\ Len(EntriesOf(transitions', c)) = Len(EntriesOf(transitions, c)) + 1
                /\ AppendedEntry(c).toStatus = candidatures'[c].status
          /\ LogAppended(c) => AppendedEntry(c).toStatus = candidatures'[c].status]_vars

\* The transitions of the table in section 4.1 and the forward steps of the chain
LegalTransitions ==
    {<<"pending", "assigned">>, <<"assigned", "in_progress">>,
     <<"in_progress", "completed">>, <<"completed", "in_review">>,
     <<"completed", "evaluated">>, <<"in_review", "evaluated">>,
     <<"evaluated", "archived">>}

\* C2: every TransitionLog entry (fromStatus, toStatus) is a legal transition.
C2_LogOnlyLegalTransitions ==
    \A i \in 1..Len(transitions) :
        <<transitions[i].fromStatus, transitions[i].toStatus>> \in LegalTransitions

Rank(status) ==
    CASE status = "pending" -> 0
      [] status = "assigned" -> 1
      [] status = "in_progress" -> 2
      [] status = "completed" -> 3
      [] status = "in_review" -> 4
      [] status = "evaluated" -> 5
      [] status = "archived" -> 6

\* C3: no step replaces a stored status by an earlier one, and a stored status
\* archived is never changed.
C3_StatusNeverMovesBackward ==
    [][\A c \in 1..Len(candidatures) :
          /\ Rank(candidatures'[c].status) >= Rank(candidatures[c].status)
          /\ candidatures[c].status = "archived" => candidatures'[c].status = "archived"]_vars

\* C4: each job application owns at most one candidature.
C4_AtMostOneCandidaturePerApplication ==
    \A a \in 1..Len(jobApplications) : Cardinality(CandidaturesOf(a)) <= 1

\* C4 witness: a caller that passed the existence check is about to insert a
\* candidature for an application that meanwhile owns one.
C4_RacingInsert ==
    \E p \in DOMAIN pc :
        /\ pc[p] \in {"insert", "tx"}
        /\ req[p].op \in {"create", "review"}
        /\ req[p].dto.decision # "rejected"
        /\ CandidaturesOf(req[p].id) # {}

\* A caller's call to method op leaves the given position in this step
Leaves(p, op, label) == pc[p] = label /\ req[p].op = op /\ pc'[p] # label

\* The call of p returns an HTTP error and the step writes no table
Rejects(p, kinds) ==
    /\ pc'[p] = "idle"
    /\ res'[p].kind \in kinds
    /\ UNCHANGED <<jobApplications, candidatures, transitions>>

\* The step inserts exactly one candidature, for job application appId
InsertsOneCandidature(appId) ==
    /\ Len(candidatures') = Len(candidatures) + 1
    /\ SubSeq(candidatures', 1, Len(candidatures)) = candidatures
    /\ candidatures'[Len(candidatures')].jobApplicationId = appId

C6_ReviewApprovesAtomically ==
    [][\A p \in DOMAIN pc :
          LET id == req[p].id
              application == FindApplication(id)
          IN
          /\ Leaves(p, "review", "called") =>
                /\ UNCHANGED <<jobApplications, candidatures, transitions>>
                /\ application.status \notin {"none", "pending"}
                      => Rejects(p, {"BadRequest"})
                /\ pc'[p] = "tx" => application.status = "pending"
                /\ pc'[p] \in {"tx", "idle"}
                /\ pc'[p] = "idle" => res'[p].kind # "ok"
          /\ Leaves(p, "review", "tx") /\ req[p].dto.decision = "approved" =>
                /\ pc'[p] = "idle"
                /\ UNCHANGED transitions
                /\ \/ /\ res'[p].kind = "ok"
                      /\ jobApplications' =
                            [jobApplications EXCEPT ![id].status = "approved",
                                                    ![id].reviewedBy = req[p].dto.by]
                      /\ InsertsOneCandidature(id)
                      /\ candidatures'[Len(candidatures')] = NewCandidature(id)
                   \/ /\ res'[p].kind # "ok"
                      /\ UNCHANGED <<jobApplications, candidatures>>]_vars

\* C6 witness: an approving review has committed (the application is approved
\* and owns its candidature), a later review of it was refused, and another
\* approving review that read the application as pending is still in flight.
C6_ApprovedReviewedAgain ==
    \E p, q \in DOMAIN pc :
        /\ pc[p] = "tx" /\ req[p].op = "review" /\ req[p].dto.decision = "approved"
        /\ req[p].app.status = "pending"
        /\ jobApplications[req[p].id].status = "approved"
        /\ CandidaturesOf(req[p].id) # {}
        /\ res[q].kind = "BadRequest"
        /\ res[q].message = "Application has already been approved"

\* C7: the job application of every candidature has status approved.
C7_CandidatureOwnerApproved ==
    \A c \in 1..Len(candidatures) :
        FindApplication(candidatures[c].jobApplicationId).status = "approved"

\* C8: under interleaved transition operations on one candidature, every step
\* that changes the stored status appends exactly one log entry, and every
\* appended log entry carries the status stored immediately before the step as
\* fromStatus and the status stored by the step as toStatus.
C8_PairedStatusAndLog ==
    [][\A c \in 1..Len(candidatures) :
          /\ StatusChanged(c) =>
                Len(EntriesOf(transitions', c)) = Len(EntriesOf(transitions, c)) + 1
          /\ LogAppended(c) =>
                /\ Len(EntriesOf(transitions', c)) = Len(EntriesOf(transitions, c)) + 1
                /\ AppendedEntry(c).fromStatus = candidatures[c].status
                /\ AppendedEntry(c).toStatus = candidatures'[c].status]_vars

\* a request that violates the guard of the method it calls
ViolatesGuard(op, candidature, dto) ==
    /\ candidature.status # "none"
    /\ \/ /\ op = "assignTests"
          /\ \/ candidature.status \notin {"pending", "assigned"}
             \/ dto.logicalTestId \notin LogicalTests
             \/ dto.optionalLogicalTestId \notin LogicalTests \cup {UNDEF}
       \/ op = "makeDecision" /\ candidature.status \notin {"completed", "in_review"}
       \/ op = "archive" /\ candidature.status # "evaluated"

\* C9: assignTests, makeDecision and archive called with a violated guard
\* return an error and leave every candidature and the log unchanged.
C9_GuardViolationWritesNothing ==
    [][\A p \in DOMAIN pc :
          /\ pc[p] = "called" /\ pc'[p] # "called"
          /\ ViolatesGuard(req[p].op, FindCandidature(req[p].id), req[p].dto)
          => Rejects(p, {"BadRequest", "NotFound"})]_vars

\* C9 witness: archive was refused for a candidature that had already moved on
\* from pending and has a log.
C9_ArchiveRefused ==
    \E p \in DOMAIN pc :
        /\ res[p].kind = "BadRequest"
        /\ res[p].message = "Only evaluated candidatures can be archived"
        /\ candidatures[1].status \notin {"pending", "evaluated"}
        /\ transitions # <<>>

\* C10: a candidature has at most one log entry with toStatus archived, and
\* that entry is (evaluated, archived).
C10_ArchivedLoggedOnce ==
    \A c \in 1..Len(candidatures) :
        LET archived == {i \in 1..Len(transitions) :
                            /\ transitions[i].candidatureId = c
                            /\ transitions[i].toStatus = "archived"}
        IN /\ Cardinality(archived) <= 1
           /\ \A i \in archived : transitions[i].fromStatus = "evaluated"

\* C11: decision, decisionBy and decisionDate of a candidature are non-null
\* only if its status is evaluated or archived.
C11_DecisionOnlyWhenEvaluated ==
    \A c \in 1..Len(candidatures) :
        \/ candidatures[c].status \in {"evaluated", "archived"}
        \/ /\ candidatures[c].decision = NULL
           /\ candidatures[c].decisionBy = NULL
           /\ candidatures[c].decisionDate = NULL

\* The row holds what assignTests called with dto (and the personality test it
\* looked up) stores
AssignedAs(row, dto, personalityTestId) ==
    /\ row.status = "assigned"
    /\ row.assignedLogicalTestId = dto.logicalTestId
    /\ dto.optionalLogicalTestId # UNDEF
          => row.assignedOptionalLogicalTestId = dto.optionalLogicalTestId
    /\ personalityTestId # UNDEF => row.assignedPersonalityTestId = personalityTestId
    /\ dto.examDate # UNDEF => row.examDate = dto.examDate

\* C12: a committed assignTests leaves the candidature holding its arguments
\* with status assigned; it appends a log entry only when the status before
\* was pending, and then exactly one (pending, assigned); called again on a
\* candidature that already holds the same arguments it changes neither the
\* candidature nor the log.
C12_AssignTestsIdempotent ==
    [][\A p \in DOMAIN pc :
          Leaves(p, "assignTests", "tx") /\ res'[p].kind = "ok" =>
             LET id == req[p].id
                 dto == req[p].dto
                 personalityTestId == req[p].personalityTestId
             IN
             /\ AssignedAs(candidatures'[id], dto, personalityTestId)
             /\ LogAppended(id) =>
                   /\ candidatures[id].status = "pending"
                   /\ Len(EntriesOf(transitions', id)) = Len(EntriesOf(transitions, id)) + 1
                   /\ AppendedEntry(id).fromStatus = "pending"
                   /\ AppendedEntry(id).toStatus = "assigned"
             /\ Len(transitions') <= Len(transitions) + 1
             /\ AssignedAs(candidatures[id], dto, personalityTestId)
                   => UNCHANGED <<candidatures, transitions>>]_vars

\* C12 witness: assignTests is about to commit a second time on a candidature
\* that already holds the same arguments and has its one log entry.
C12_SecondIdenticalCall ==
    \E p \in DOMAIN pc :
        /\ pc[p] = "tx" /\ req[p].op = "assignTests"
        /\ req[p].dto.optionalLogicalTestId # UNDEF /\ req[p].dto.examDate # UNDEF
        /\ AssignedAs(candidatures[req[p].id], req[p].dto, req[p].personalityTestId)
        /\ Len(EntriesOf(transitions, req[p].id)) = 1

DefaultLanguages == {l \in languages : l.isDefault}

OneActiveDefault ==
    /\ Cardinality(DefaultLanguages) = 1
    /\ \A l \in DefaultLanguages : l.isActive

\* C20: from a registry with exactly one default language that is active, every
\* step of upsertLanguage and toggleLanguageActive keeps exactly one default
\* language and keeps it active; no step sets or clears isDefault, and
\* toggleLanguageActive on the default language fails with BadRequest and
\* leaves the registry unchanged.
C20_ExactlyOneActiveDefault ==
    [][OneActiveDefault =>
         /\ OneActiveDefault'
         /\ DefaultLanguages' = DefaultLanguages
         /\ \A p \in DOMAIN pc :
              (/\ Leaves(p, "toggleLanguageActive", "called")
               /\ \E l \in DefaultLanguages : l.code = req[p].dto.languageCode)
              => /\ Rejects(p, {"BadRequest"})
                 /\ languages' = languages]_vars

\* A toggle of the default language was refused in a registry that has grown
\* and in which another language was deactivated
C20_DefaultToggleRefused ==
    /\ \E p \in DOMAIN pc :
         res[p] = Result("BadRequest", "Cannot deactivate the default language")
    /\ Language("de", TRUE, FALSE) \in languages
    /\ Language("en", FALSE, FALSE) \in languages

\* The tests and questions of the store, with the model of their translations
ContentParents ==
    {<<"logicalTestTranslation", "test1">>, <<"logicalQuestionTranslation", "q1">>}

\* C19: every test and question that had a translation keeps at least one,
\* whatever sequence of translation upserts and deletes is run.
C19_NoParentWithoutTranslation ==
    \A c \in ContentParents : TranslationsOfParent(c[1], c[2]) # {}

\* The translation the specification asks of getXTranslation: at the resolved
\* language, else at the registry's default language, else null
BestTranslation(model, parentId, requestedLang) ==
    LET atResolved == FindTranslation(model, parentId, ResolveLanguageCode(requestedLang))
    IN IF atResolved # NoRow THEN atResolved
       ELSE FindTranslation(model, parentId, GetDefaultLanguageCode)

ReturnsFrom(p, ops) == pc[p] = "called" /\ req[p].op \in ops /\ pc'[p] = "idle"

\* C16: in every registry, getTestTranslation / getQuestionTranslation returns
\* without throwing the translation at the resolved language when it exists,
\* else the one at the registry's default language when it exists, else null.
C16_ResolvedThenRegistryDefault ==
    [][\A p \in DOMAIN pc :
         ReturnsFrom(p, {"getTestTranslation", "getQuestionTranslation"})
         => /\ res'[p].kind = "ok"
            /\ res'[p].value = BestTranslation(TranslationModel(req[p].op),
                                               req[p].dto.parentId,
                                               req[p].dto.languageCode)]_vars

\* C17: for a parent that has a translation in some language,
\* getTestTranslation / getQuestionTranslation never returns null.
C17_NeverNoContent ==
    [][\A p \in DOMAIN pc :
         (/\ ReturnsFrom(p, {"getTestTranslation", "getQuestionTranslation"})
          /\ TranslationsOfParent(TranslationModel(req[p].op), req[p].dto.parentId) # {})
         => res'[p].value # NoRow]_vars

\* C18: getQuestionTranslationsBatch makes at most two translation lookups and
\* maps exactly the parents that have a translation at the resolved or at the
\* registry's default language, each to the resolved-language one when it exists.
C18_BatchBestAvailable ==
    [][\A p \in DOMAIN pc :
         ReturnsFrom(p, {"getQuestionTranslationsBatch"})
         => LET model == TranslationModel(req[p].op)
                ids == Range(req[p].dto.parentIds)
                lang == req[p].dto.languageCode
                mapped == {id \in ids : BestTranslation(model, id, lang) # NoRow}
            IN /\ res'[p].value.lookups <= 2
               /\ res'[p].value.translationMap =
                    [id \in mapped |-> BestTranslation(model, id, lang)]]_vars

\* C14: a call of upsertClassifications that is rejected (unknown test, range
\* or overlap error, invalid language code, failed insert in the transaction)
\* changes neither the stored classifications nor their translations: the
\* sets stored before the call are still there.
C14_FailedUpsertLeavesSetUntouched ==
    [][\A p \in DOMAIN pc :
         (/\ req[p].op = "upsertClassifications"
          /\ pc'[p] = "idle"
          /\ res'[p].kind # "ok")
         => /\ classifications' = classifications
            /\ classifications' \in PriorClassifications
            /\ translations' = translations]_vars

\* An insert inside the transaction failed while the test had a stored set
C14_InsertFailedOverPriorSet ==
    /\ \E p \in DOMAIN pc : res[p].kind = "Conflict"
    /\ ClassificationsOf("test1") # {}

\* Stored sets: min <= max, distinct display orders, ranges increasing with
\* the display order for every pair of rows
StoredSetsWellFormed ==
    \A testId \in StoredTests :
      \A a, b \in ClassificationsOf(testId) :
        /\ a.minScore <= a.maxScore
        /\ (a.displayOrder = b.displayOrder => a = b)
        /\ (a.displayOrder < b.displayOrder => a.maxScore < b.minScore)

DistinctDisplayOrders(items) ==
    \A i, j \in 1..Len(items) : items[i].displayOrder = items[j].displayOrder => i = j

\* The pairwise condition on an input array
PairwiseOrdered(items) ==
    /\ \A i \in 1..Len(items) : items[i].minScore <= items[i].maxScore
    /\ \A i, j \in 1..Len(items) :
         items[i].displayOrder < items[j].displayOrder
         => items[i].maxScore < items[j].minScore

PendingUpserts == {p \in DOMAIN pc : pc[p] = "called" /\ req[p].op = "upsertClassifications"}

\* C15 as stated: stored sets are well formed, and validateClassificationRanges
\* accepts an input exactly when its items have min <= max, pairwise distinct
\* display orders and ranges increasing with the display order.
C15_AdjacentCheckIsPairwiseCheck ==
    /\ StoredSetsWellFormed
    /\ \A p \in PendingUpserts :
         ValidateClassificationRanges(req[p].dto.items) = Ok
         <=> (DistinctDisplayOrders(req[p].dto.items) /\ PairwiseOrdered(req[p].dto.items))

\* C15: stored sets are well formed; on inputs with pairwise distinct display
\* orders validateClassificationRanges accepts exactly the pairwise ordered
\* ones; an input that repeats a display order is never stored.
C15_StoredSetsPairwiseOrdered ==
    /\ StoredSetsWellFormed
    /\ \A p \in PendingUpserts :
         DistinctDisplayOrders(req[p].dto.items)
         => (ValidateClassificationRanges(req[p].dto.items) = Ok
             <=> PairwiseOrdered(req[p].dto.items))
    /\ \A p \in DOMAIN pc :
         (pc[p] = "return" /\ req[p].op = "upsertClassifications")
         => DistinctDisplayOrders(req[p].dto.items)

\* Three ranges were accepted through the adjacent-pair check and stored
C15_ThreeRangesStored ==
    /\ Cardinality(ClassificationsOf("test1")) = 3
    /\ \E p \in DOMAIN pc : res[p].kind = "ok"

\* The step creates the user, the approved application, the pending
\* candidature and the technical interview asked for by dto, together
CreatesLegacyRecords(dto) ==
    /\ dto.email \notin users
    /\ users' = users \cup {dto.email}
    /\ jobApplications' = Append(jobApplications, NewApplication(dto.email, "approved", dto.by))
    /\ candidatures' =
         Append(candidatures,
                [NewCandidature(Len(jobApplications) + 1) EXCEPT !.technicalInterview = dto.interview])

\* C23: createLegacy rejects a registered email with Conflict and writes
\* nothing; its transaction creates user, approved application, pending
\* candidature and interview together or nothing at all, and sends nothing;
\* the notification step changes no record, never rejects, and emailSent is
\* true exactly when an email was sent.
C23_LegacyAllOrNothingThenNotify ==
    [][\A p \in DOMAIN pc :
         /\ (Leaves(p, "createLegacy", "called") /\ req[p].dto.email \in users)
              => (Rejects(p, {"Conflict"}) /\ UNCHANGED <<db, outbox>>)
         /\ Leaves(p, "createLegacy", "tx")
              => /\ UNCHANGED <<outbox, transitions>>
                 /\ \/ /\ CreatesLegacyRecords(req[p].dto)
                       /\ pc'[p] = "idle" => (res'[p].kind = "ok" /\ ~res'[p].emailSent)
                    \/ /\ UNCHANGED db
                       /\ pc'[p] = "idle" /\ res'[p].kind # "ok"
         /\ Leaves(p, "createLegacy", "notify")
              => /\ UNCHANGED db
                 /\ res'[p].kind = "ok"
                 /\ res'[p].emailSent <=> (outbox' = outbox \cup {req[p].dto.email}
                                           /\ outbox' # outbox)
                 /\ ~res'[p].emailSent => outbox' = outbox]_vars

\* A notification failed after its records were created, and a later call
\* for a registered email was refused
C23_NotifyFailedRecordsKept ==
    /\ \E p \in DOMAIN pc :
         res[p].kind = "ok" /\ ~res[p].emailSent /\ ~res[p].temporaryPassword
    /\ \E p \in DOMAIN pc : res[p].kind = "Conflict"
    /\ outbox = {}
    /\ \E c \in 1..Len(candidatures) : candidatures[c].status = "pending"

\* C29: a successful createLegacy returns the temporary password exactly when
\* sendCredentials is false, and otherwise has delivered it by email.
C29_PasswordReturnedOrDelivered ==
    [][\A p \in DOMAIN pc :
         (/\ req[p].op = "createLegacy" /\ pc[p] # "idle"
          /\ pc'[p] = "idle" /\ res'[p].kind = "ok")
         => /\ res'[p].temporaryPassword <=> ~req[p].dto.sendCredentials
            /\ req[p].dto.sendCredentials
                 => (res'[p].emailSent /\ req[p].dto.email \in outbox')]_vars

\* C26: from an empty store, every approved job application owns exactly one
\* candidature, and CandidaturesService.create never passes its guards.
C26_ApprovedOwnsOneCandidature ==
    /\ \A a \in 1..Len(jobApplications) :
         jobApplications[a].status = "approved" => Cardinality(CandidaturesOf(a)) = 1
    /\ \A p \in DOMAIN pc : req[p].op = "create" => pc[p] = "called"

\* create was refused for an approved application that has its candidature
C26_CreateRefusedAfterApproval ==
    /\ \E p \in DOMAIN pc :
         res[p] = Result("Conflict", "Job application already has a candidature")
    /\ \E a \in 1..Len(jobApplications) :
         jobApplications[a].status = "approved" /\ jobApplications[a].candidateId = Candidate

\* C27: a candidature whose status is not pending has a transition log entry,
\* and its most recent entry leads to the stored status.
C27_LogAgreesWithStatus ==
    \A c \in 1..Len(candidatures) :
       candidatures[c].status # "pending"
       => LET entries == TransitionsOf(c) IN
          /\ entries # <<>>
          /\ entries[Len(entries)].toStatus = candidatures[c].status

\* C30: a successful assignTests overwrites assignedLogicalTestId and status,
\* and leaves the stored optional test, personality test and exam date as
\* they are when the call gives no value for them.
C30_AssignTestsKeepsOmittedFields ==
    [][\A p \in DOMAIN pc :
         (Leaves(p, "assignTests", "tx") /\ res'[p].kind = "ok")
         => LET id == req[p].id
                dto == req[p].dto
                before == candidatures[id]
                after == candidatures'[id]
            IN /\ after.assignedLogicalTestId = dto.logicalTestId
               /\ after.status = "assigned"
               /\ dto.optionalLogicalTestId = UNDEF
                    => after.assignedOptionalLogicalTestId = before.assignedOptionalLogicalTestId
               /\ (~dto.includePersonalityTest \/ ActivePersonalityTests = {})
                    => after.assignedPersonalityTestId = before.assignedPersonalityTestId
               /\ dto.examDate = UNDEF => after.examDate = before.examDate]_vars

\* The last entry of ts for a language code
LastFor(ts, code) ==
    ts[CHOOSE i \in 1..Len(ts) :
         /\ ts[i].languageCode = code
         /\ \A j \in (i + 1)..Len(ts) : ts[j].languageCode # code]

\* C25: after a successful upsertTestTranslations(testId, ts), the test's
\* translations hold, for every language code of ts, exactly one row with the
\* texts and the description of the last entry of ts for that code (no
\* description when that entry has none); rows of other languages are unchanged.
C25_UpsertThenGetRoundTrip ==
    [][\A p \in DOMAIN pc :
         (Leaves(p, "upsertTestTranslations", "tx") /\ res'[p].kind = "ok")
         => LET ts == req[p].dto.translations
                id == req[p].dto.parentId
                codes == {ts[i].languageCode : i \in 1..Len(ts)}
                got == TranslationsOfParent("logicalTestTranslation", id)'
                had == TranslationsOfParent("logicalTestTranslation", id)
            IN /\ \A code \in codes :
                    {r \in got : r.languageCode = code}
                    = {[TranslationRow("logicalTestTranslation", id, code,
                                       LastFor(ts, code).text)
                          EXCEPT !.description =
                             IF LastFor(ts, code).description = UNDEF THEN NULL
                             ELSE LastFor(ts, code).description]}
               /\ {r \in got : r.languageCode \notin codes}
                  = {r \in had : r.languageCode \notin codes}]_vars

\* C24: every test with tutorialTestId set is a main test, the test it
\* references is a tutorial test of the same code and another id, no tutorial
\* test is referenced by two tests, and no two tests share (code, isTutorial).
C24_TutorialLinksWellFormed ==
    /\ \A t \in tests :
         t.tutorialTestId # NULL
         => /\ ~t.isTutorial
            /\ \E u \in FindTest(t.tutorialTestId) :
                 u.isTutorial /\ u.code = t.code /\ u.id # t.id
    /\ \A t, u \in tests :
         (t.tutorialTestId # NULL /\ t.tutorialTestId = u.tutorialTestId) => t = u
    /\ \A t, u \in tests : (t.code = u.code /\ t.isTutorial = u.isTutorial) => t = u

\* A read-through method returns to caller p
ReadReturns(p) ==
    /\ req[p].op \in {"findOne", "getClassifications"}
    /\ pc'[p] = "idle"
    /\ res'[p].kind = "ok"

\* C21: with a cache that never fails and one request at a time, every
\* findOne and getClassifications that returns a view, in any language,
\* returns a view of the store as the completed writes left it.
C21_ReadsSeeCompletedWrites ==
    [][\A p \in DOMAIN pc :
         ReadReturns(p)
         => /\ FindTest(req[p].dto.parentId) # {}
            /\ res'[p].value \in StoreViews(req[p].op, req[p].dto.parentId,
                                            req[p].dto.languageCode)]_vars

\* C28: when the read-through findOne and the concurrent writes have all
\* completed, every cached view of a test is a view of the current store.
C28_NoStaleViewAfterRace ==
    (\A p \in DOMAIN pc : pc[p] = "idle")
    => \A e \in cache.test :
         /\ FindTest(e.key.testId) # {}
         /\ e.view \in StoreViews("findOne", e.key.testId, e.key.lang)

ReadOps == {"findOne", "getClassifications"}

\* The cache key of the read caller p runs
ReadKey(p) ==
    CacheKey(IF req[p].op = "findOne" THEN "test" ELSE "classifications",
             req[p].dto.parentId, req[p].dto.languageCode)

\* The store after the write of caller p shows what the write asked for
WriteCommitted(p) ==
    LET id == req[p].dto.parentId
        stored == FindTest(id)
    IN
    CASE req[p].op = "tests.update" ->
           \A t \in stored : req[p].dto.isActive \in {{}, {t.isActive}}
      [] req[p].op = "toggleActive" ->
           \A t \in stored : \A r \in req[p].test : t.isActive = ~r.isActive
      [] req[p].op = "remove" -> stored = {}
      [] req[p].op = "upsertClassifications" ->
           ClassificationsOf(id)
             = {ClassificationRow(id, req[p].dto.items[i]) : i \in 1..Len(req[p].dto.items)}
      [] OTHER -> TRUE

\* C22: whatever cache call throws, findOne and getClassifications return
\* from the lookup only with a cached entry, else read the store and return
\* NotFound or the view they read, whether or not it could be cached; the
\* invalidation after update, toggleActive, remove and upsertClassifications
\* leaves the committed write in the store and the method goes on to
\* return its response.
C22_CacheFailuresKeepOutcome ==
    [][\A p \in DOMAIN pc :
         /\ (req[p].op \in ReadOps /\ pc[p] = "called" /\ pc'[p] # "called")
              => \/ pc'[p] = "read" /\ req'[p] = req[p]
                 \/ /\ pc'[p] = "idle" /\ res'[p].kind = "ok"
                    /\ \E e \in CacheGet(ReadKey(p)) : res'[p].value = e.view
         /\ (req[p].op \in ReadOps /\ pc[p] = "read" /\ pc'[p] # "read")
              => \/ /\ pc'[p] = "idle"
                    /\ res'[p].kind \in {"NotFound", "PersistenceError"}
                    /\ res'[p].kind = "NotFound" => FindTest(req[p].dto.parentId) = {}
                 \/ /\ pc'[p] = "cacheSet"
                    /\ FindTest(req[p].dto.parentId) # {}
                    /\ req'[p].view \in StoreViews(req[p].op, req[p].dto.parentId,
                                                   req[p].dto.languageCode)
         /\ (req[p].op \in ReadOps /\ pc[p] = "cacheSet" /\ pc'[p] # "cacheSet")
              => /\ pc'[p] = "idle" /\ res'[p].kind = "ok"
                 /\ res'[p].value = req[p].view
         /\ (pc[p] = "invalidate" /\ pc'[p] # "invalidate")
              => /\ UNCHANGED <<tests, translations, classifications>>
                 /\ WriteCommitted(p)
                 /\ IF req[p].op = "upsertClassifications"
                      THEN pc'[p] = "return" /\ req'[p] = req[p]
                      ELSE /\ pc'[p] = "idle" /\ res'[p].kind = "ok"
                           /\ res'[p].value = req[p].view]_vars

\* A lookup threw while the key was cached, and the store was read instead
C22_LookupFailedOverCachedKey ==
    \E p \in DOMAIN pc :
       /\ pc[p] = "read" /\ req[p].op \in ReadOps
       /\ CacheGet(ReadKey(p)) # {}

====
